---- MODULE Spec2Model ----
(***************************************************************************)
(* A model of the 5etools-to-postgres pipeline: the item canonicalizer of  *)
(* clean_items.py, the challenge-rating rule of clean_monsters.py, the     *)
(* cleaning driver clean_all.py with validate_cleaned.py, and the          *)
(* orchestrator of run_pipeline.py.                                        *)
(*                                                                         *)
(* JSON values are tagged records.  A Python string is a sequence of       *)
(* one-character strings, so that splitting and numeric parsing are        *)
(* computed; dictionary keys are TLA+ strings.  A raised exception is the  *)
(* value Raise(name).                                                      *)
(***************************************************************************)
EXTENDS Integers, Sequences, FiniteSets, TLC

VARIABLES
    \* one record through the rules of clean_items.py / clean_monsters.py
    rule,         \* "none" | "item" | "monster": the rule set applied to raw
    raw,          \* the raw record
    cleaned,      \* clean_item(raw) or clean_monster(raw): a record, or the exception raised
    recleaned,    \* clean_item(cleaned), once the cleaned record was cleaned again
    \* clean_all.py
    disk,         \* the source files and the files under cleaned_data/
    pcAll,        \* the script clean_all.main runs next, then "report", then "done"
    results,      \* clean_all.main's results: <<description, success>> in order
    exitStatus,   \* the exit status of clean_all.py, once it ended
    \* run_pipeline.py
    args,         \* the parsed command line
    pc,           \* "run", the step PipelineOrchestrator runs next, "returned", "exited"
    fn,           \* the function run() dispatched to
    phaseResults, \* self.results: [phase, status] of each command run or phase skipped
    steps,        \* the phases and checkpoints started so far, each with its outcome
    returned,     \* the value run() returned
    exitCode,     \* the exit status of the process, once sys.exit was reached
    \* one input through a function of the extraction phase
    applied,      \* "none", or the function that was applied to subject
    subject,      \* the input: [kind, v]
    produced,     \* what the function returned, or the exception raised
    again,        \* what the function returned when applied to its own result
    stored,       \* the table and the statistics after the import of what was produced
    \* validate_import.py
    pcValidate,   \* "connect", the validation run_all_validations runs next, "summary", "exited"
    validation,   \* DatabaseValidator.result: the passed checks and the issues' severities
    exitValidate, \* the exit status of validate_import.py, once it ended
    \* the import scripts of one process on one connection
    database,     \* the committed rows of the database, table by table
    pending,      \* the rows of the connection's open transaction, not committed yet
    lookupCache,  \* db_helpers._LOOKUP_CACHE
    stats,        \* the ImportStats of the process
    called,       \* the last call: its name, its argument and what it returned
    \* extract_all.py
    pcExtractAll, \* the position in extract_all's pipeline of the script run next
    started,      \* the scripts started so far, each with its exit status
    returnCode    \* what extract_all.main returned

cleanVars == <<rule, raw, cleaned, recleaned>>
cleanAllVars == <<disk, pcAll, results, exitStatus>>
pipeVars == <<args, pc, fn, phaseResults, steps, returned, exitCode>>
extractVars == <<applied, subject, produced, again, stored>>
validateVars == <<pcValidate, validation, exitValidate>>
importVars == <<database, pending, lookupCache, stats, called>>
extractAllVars == <<pcExtractAll, started, returnCode>>
toolVars == <<validateVars, importVars, extractAllVars>>
vars == <<cleanVars, cleanAllVars, pipeVars, extractVars, toolVars>>

----------------------------------------------------------------------------
(* JSON values *)

Null == [t |-> "null"]
IntV(n) == [t |-> "int", v |-> n]
\* a float with the exact value n / d, d >= 1, in lowest terms
Float(n, d) == [t |-> "float", n |-> n, d |-> d]
Bool(b) == [t |-> "bool", b |-> b]
Str(s) == [t |-> "str", s |-> s]
List(xs) == [t |-> "list", items |-> xs]
Dict(f) == [t |-> "dict", d |-> f]
Raise(e) == [t |-> "raise", exc |-> e]
\* a key that a dict does not hold, a file that does not exist
Absent == [t |-> "absent"]
\* a result that is not there yet
NotRun == [t |-> "pending"]

EmptyDict == Dict(<<>>)
IsRaise(x) == x.t = "raise"

\* type(x).__name__
TypeName(x) ==
    CASE x.t = "null" -> "NoneType"
      [] x.t = "list" -> "list"
      [] x.t = "dict" -> "dict"
      [] OTHER -> x.t

\* Python truthiness: not x
Falsy(x) ==
    \/ x.t = "null"
    \/ x.t = "bool" /\ ~x.b
    \/ x.t = "int" /\ x.v = 0
    \/ x.t = "float" /\ x.n = 0
    \/ x.t = "str" /\ x.s = <<>>
    \/ x.t = "list" /\ x.items = <<>>
    \/ x.t = "dict" /\ DOMAIN x.d = {}

\* key in dict
Has(dict, k) == k \in DOMAIN dict.d
\* dict.get(k, default)
GetOr(dict, k, default) == IF Has(dict, k) THEN dict.d[k] ELSE default
\* dict.get(k)
Get(dict, k) == GetOr(dict, k, Null)
\* dict[k] = v
Put(dict, k, v) ==
    Dict([x \in DOMAIN dict.d \cup {k} |-> IF x = k THEN v ELSE dict.d[x]])

----------------------------------------------------------------------------
(* Python strings *)

Digits == {"0", "1", "2", "3", "4", "5", "6", "7", "8", "9"}

DigitVal(c) ==
    CASE c = "0" -> 0 [] c = "1" -> 1 [] c = "2" -> 2 [] c = "3" -> 3
      [] c = "4" -> 4 [] c = "5" -> 5 [] c = "6" -> 6 [] c = "7" -> 7
      [] c = "8" -> 8 [] c = "9" -> 9

RECURSIVE DigitsVal(_)
DigitsVal(s) ==
    IF s = <<>> THEN 0
    ELSE 10 * DigitsVal(SubSeq(s, 1, Len(s) - 1)) + DigitVal(s[Len(s)])

IsDigits(s) == s # <<>> /\ \A i \in 1..Len(s) : s[i] \in Digits

\* the literals int(str) and float(str) accept, over the characters modelled
IsNumeral(s) ==
    \/ IsDigits(s)
    \/ Len(s) >= 2 /\ s[1] \in {"+", "-"} /\ IsDigits(Tail(s))

NumeralVal(s) ==
    IF s[1] = "-" THEN 0 - DigitsVal(Tail(s))
    ELSE IF s[1] = "+" THEN DigitsVal(Tail(s))
    ELSE DigitsVal(s)

\* int(s) for a str s
PyIntOfStr(s) == IF IsNumeral(s) THEN IntV(NumeralVal(s)) ELSE Raise("ValueError")
\* float(s) for a str s
PyFloatOfStr(s) == IF IsNumeral(s) THEN Float(NumeralVal(s), 1) ELSE Raise("ValueError")

\* c in s
Contains(s, c) == \E i \in 1..Len(s) : s[i] = c

\* s.split(c)
RECURSIVE Split(_, _)
Split(s, c) ==
    IF ~Contains(s, c) THEN <<s>>
    ELSE LET i == CHOOSE j \in 1..Len(s) : s[j] = c /\ \A k \in 1..(j - 1) : s[k] # c
         IN <<SubSeq(s, 1, i - 1)>> \o Split(SubSeq(s, i + 1, Len(s)), c)

\* the TLA+ string of a Python string, used where a str is a dictionary key
RECURSIVE Join(_)
Join(s) == IF s = <<>> THEN "" ELSE Head(s) \o Join(Tail(s))

\* value.split('|')[0] if '|' in value else value
StripSource(s) == IF Contains(s, "|") THEN Split(s, "|")[1] ELSE s

----------------------------------------------------------------------------
(* Numbers *)

Abs(n) == IF n < 0 THEN 0 - n ELSE n

RECURSIVE Gcd(_, _)
Gcd(a, b) == IF b = 0 THEN a ELSE Gcd(b, a % b)

\* the float n / d in lowest terms, d # 0
Ratio(n, d) ==
    LET g == Gcd(Abs(n), Abs(d))
        s == IF d < 0 THEN 0 - 1 ELSE 1
    IN Float((s * n) \div g, (s * d) \div g)

\* int(x) of a float: truncation toward zero
Trunc(n, d) == IF n >= 0 THEN n \div d ELSE 0 - ((0 - n) \div d)

\* the numerator and denominator of a number (True is 1, False is 0)
Num(x) == CASE x.t = "int" -> x.v [] x.t = "float" -> x.n [] x.t = "bool" -> (IF x.b THEN 1 ELSE 0)
Den(x) == IF x.t = "float" THEN x.d ELSE 1

\* float(x)
PyFloat(x) ==
    CASE x.t \in {"int", "float", "bool"} -> Float(Num(x), Den(x))
      [] x.t = "str" -> PyFloatOfStr(x.s)
      [] OTHER -> Raise("TypeError")

----------------------------------------------------------------------------
(* clean_items.py: the field rules *)

\* str(x), for the shapes whose text the rules keep
PyStr(x) ==
    CASE x.t = "str" -> x
      [] x.t = "null" -> Str(<<"N", "o", "n", "e">>)
      [] x.t = "bool" -> IF x.b THEN Str(<<"T", "r", "u", "e">>)
                         ELSE Str(<<"F", "a", "l", "s", "e">>)
      [] x.t = "int" /\ x.v \in 0..9 -> Str(<<CHOOSE c \in Digits : DigitVal(c) = x.v>>)

\* [f(xs[i]) : i] keeping the elements that satisfy Keep
SelectMap(xs, Keep(_), F(_)) ==
    LET kept == SelectSeq(xs, Keep) IN [i \in 1..Len(kept) |-> F(kept[i])]

\* a for loop over x raises TypeError
NotIterable(x) == x.t \in {"null", "int", "float", "bool"}

\* the elements a for loop over x visits
\* (a loop over a non-empty dict, which visits its keys, is not modelled)
Iterate(x) ==
    CASE x.t = "list" -> x.items
      [] x.t = "str" -> [i \in 1..Len(x.s) |-> Str(<<x.s[i]>>)]
      [] x.t = "dict" /\ DOMAIN x.d = {} -> <<>>

\* normalize_value with the boundary test written >= 100
normalize_value_boundary(value_data) ==
    IF value_data.t = "null" THEN IntV(0)
    ELSE IF value_data.t = "dict" THEN
        LET cp == GetOr(value_data, "cp", IntV(0))
            sp == GetOr(value_data, "sp", IntV(0))
            gp == GetOr(value_data, "gp", IntV(0))
            pp == GetOr(value_data, "pp", IntV(0))
        IN \* a null amount makes the sum raise (the amounts enumerated are
           \* integers or null)
           IF \E a \in {cp, sp, gp, pp} : a.t # "int" THEN Raise("TypeError")
           ELSE IntV(cp.v + sp.v * 10 + gp.v * 100 + pp.v * 1000)
    ELSE IF value_data.t \in {"int", "float", "bool"} THEN
        \* x >= 100 is n >= 100 * d; int() truncates (float products taken exactly)
        IF Num(value_data) >= 100 * Den(value_data)
        THEN IntV(Trunc(Num(value_data), Den(value_data)))
        ELSE IntV(Trunc(Num(value_data) * 100, Den(value_data)))
    ELSE IntV(0)

normalize_value(value_data) ==
    IF value_data.t = "null" THEN IntV(0)
    ELSE IF value_data.t = "dict" THEN
        LET cp == GetOr(value_data, "cp", IntV(0))
            sp == GetOr(value_data, "sp", IntV(0))
            gp == GetOr(value_data, "gp", IntV(0))
            pp == GetOr(value_data, "pp", IntV(0))
        IN \* a null amount makes the sum raise (the amounts enumerated are
           \* integers or null)
           IF \E a \in {cp, sp, gp, pp} : a.t # "int" THEN Raise("TypeError")
           ELSE IntV(cp.v + sp.v * 10 + gp.v * 100 + pp.v * 1000)
    ELSE IF value_data.t \in {"int", "float", "bool"} THEN
        \* x > 100 is n > 100 * d; int() truncates (float products taken exactly)
        IF Num(value_data) > 100 * Den(value_data)
        THEN IntV(Trunc(Num(value_data), Den(value_data)))
        ELSE IntV(Trunc(Num(value_data) * 100, Den(value_data)))
    ELSE IntV(0)

normalize_weight(weight_data) ==
    IF weight_data.t = "null" THEN Float(0, 1) ELSE PyFloat(weight_data)

\* PropertyCode with the uid kept whole
PropertyCode_whole_uid(prop) ==
    IF prop.t = "str" THEN prop
    ELSE IF prop.t = "dict" THEN GetOr(prop, "uid", Str(<<>>))
    ELSE Absent

\* one element of the property list: its code (or Absent when the element is
\* skipped) and its note (or Absent)
PropertyCode(prop) ==
    IF prop.t = "str" THEN prop
    ELSE IF prop.t = "dict" THEN
        LET uid == GetOr(prop, "uid", Str(<<>>))
        IN CASE uid.t = "str" -> Str(StripSource(uid.s))
             [] NotIterable(uid) -> Raise("TypeError")
    ELSE Absent

PropertyNote(prop) ==
    IF prop.t = "dict" /\ ~Falsy(Get(prop, "note")) THEN Get(prop, "note") ELSE Absent

RECURSIVE PropertyNotes(_)
PropertyNotes(props) ==
    IF props = <<>> THEN EmptyDict
    ELSE LET before == PropertyNotes(SubSeq(props, 1, Len(props) - 1))
             last == props[Len(props)]
         IN IF PropertyNote(last) = Absent THEN before
            ELSE Put(before, Join(PropertyCode(last).s), PropertyNote(last))

Pair(properties, notes) == [t |-> "tuple", properties |-> properties, notes |-> notes]

\* the pair (properties, notes), or the exception raised
normalize_property(property_data) ==
    IF Falsy(property_data) THEN Pair(List(<<>>), EmptyDict)
    ELSE IF NotIterable(property_data) THEN Raise("TypeError")
    ELSE LET props == Iterate(property_data)
         IN IF \E i \in 1..Len(props) : IsRaise(PropertyCode(props[i]))
                 THEN Raise("TypeError")
            ELSE Pair(List(SelectMap(props, LAMBDA p : PropertyCode(p) # Absent, PropertyCode)),
                      PropertyNotes(props))

NoRange == Dict([k \in {"normal", "long"} |-> Null])

\* normalize_range reading only the first part of "N/M"
normalize_range_first_part(range_data) ==
    IF range_data.t = "str" /\ ~IsRaise(PyIntOfStr(Split(range_data.s, "/")[1]))
    THEN Dict([k \in {"normal", "long"} |->
                IF k = "normal" THEN PyIntOfStr(Split(range_data.s, "/")[1]) ELSE Null])
    ELSE NoRange

normalize_range(range_data) ==
    IF Falsy(range_data) THEN NoRange
    ELSE IF range_data.t = "str" THEN
        IF Contains(range_data.s, "/") THEN
            LET parts == Split(range_data.s, "/")
                normal == PyIntOfStr(parts[1])
                long == PyIntOfStr(parts[2])
            IN IF IsRaise(normal) THEN normal
               ELSE IF IsRaise(long) THEN long
               ELSE Dict([k \in {"normal", "long"} |-> IF k = "normal" THEN normal ELSE long])
        ELSE LET normal == PyIntOfStr(range_data.s)
             IN IF IsRaise(normal) THEN NoRange
                ELSE Dict([k \in {"normal", "long"} |-> IF k = "normal" THEN normal ELSE Null])
    ELSE NoRange

normalize_mastery(mastery_data) ==
    IF Falsy(mastery_data) THEN List(<<>>)
    ELSE IF mastery_data.t = "list" THEN
        IF \E i \in 1..Len(mastery_data.items) :
              mastery_data.items[i].t \notin {"str", "dict", "list"}
        THEN Raise("TypeError")
        ELSE List([i \in 1..Len(mastery_data.items) |->
                     LET m == mastery_data.items[i]
                     IN IF m.t = "str" THEN Str(StripSource(m.s)) ELSE m])
    ELSE List(<<>>)

normalize_reprinted_as(reprinted) ==
    IF Falsy(reprinted) THEN List(<<>>)
    ELSE IF NotIterable(reprinted) THEN Raise("TypeError")
    ELSE List(SelectMap(Iterate(reprinted),
                        LAMBDA x : x.t = "str" \/ (x.t = "dict" /\ ~Falsy(GetOr(x, "name",
 Str(<<>>)))),
                        LAMBDA x : IF x.t = "str" THEN x ELSE Get(x, "name")))

normalize_srd_field(srd_value) ==
    IF srd_value.t = "bool" THEN srd_value
    ELSE IF srd_value.t = "str" THEN Bool(TRUE)
    ELSE Bool(FALSE)

IsStr(x) == x.t = "str"
Same(x) == x

\* a nested 'entries' value of some block is truthy and not iterable
RECURSIVE EntriesRaise(_)
EntriesRaise(xs) ==
    \E i \in 1..Len(xs) :
        /\ xs[i].t = "dict" /\ ~Has(xs[i], "items") /\ Has(xs[i], "entries")
        /\ ~Falsy(xs[i].d["entries"])
        /\ (NotIterable(xs[i].d["entries"]) \/ EntriesRaise(Iterate(xs[i].d["entries"])))

\* the plain strings of a list of entries, nested blocks flattened
RECURSIVE FlattenEntries(_)
FlattenEntries(xs) ==
    IF xs = <<>> THEN <<>>
    ELSE LET entry == Head(xs)
             here ==
                 IF entry.t = "str" THEN <<entry>>
                 ELSE IF entry.t = "dict" THEN
                     IF Has(entry, "items") THEN
                         IF entry.d["items"].t = "list"
                         THEN SelectMap(entry.d["items"].items, IsStr, Same)
                         ELSE <<>>
                     ELSE IF Has(entry, "entries") /\ ~Falsy(entry.d["entries"])
                          THEN FlattenEntries(Iterate(entry.d["entries"]))
                          ELSE <<>>
                 ELSE <<>>
         IN here \o FlattenEntries(Tail(xs))

normalize_entries(entries) ==
    IF Falsy(entries) THEN List(<<>>)
    ELSE IF NotIterable(entries) \/ EntriesRaise(Iterate(entries)) THEN Raise("TypeError")
    ELSE List(FlattenEntries(Iterate(entries)))

PackEntry(item, quantity) ==
    Dict([k \in {"item", "quantity"} |-> IF k = "item" THEN item ELSE quantity])

normalize_pack_contents(contents) ==
    IF Falsy(contents) THEN List(<<>>)
    ELSE IF NotIterable(contents) THEN Raise("TypeError")
    ELSE List(SelectMap(Iterate(contents),
                        LAMBDA x : x.t \in {"str", "dict"},
                        LAMBDA x : IF x.t = "str" THEN PackEntry(x, IntV(1))
                                   ELSE PackEntry(GetOr(x, "item", Str(<<>>)),
                                                  GetOr(x, "quantity", IntV(1)))))

\* int(s) with ValueError replaced by a default
IntOr(s, default) == IF IsRaise(PyIntOfStr(s)) THEN IntV(default) ELSE PyIntOfStr(s)

normalize_strength(strength) ==
    IF strength.t = "null" THEN IntV(0)
    ELSE IF strength.t = "str" THEN IntOr(strength.s, 0)
    ELSE IF strength.t \in {"int", "bool"} THEN strength
    ELSE IntV(0)

Attunement(required, description) ==
    Dict([k \in {"required", "description"} |->
            IF k = "required" THEN Bool(required) ELSE description])

normalize_attunement(attune) ==
    IF attune.t = "null" THEN Attunement(FALSE, Str(<<>>))
    ELSE IF attune.t = "bool" THEN Attunement(attune.b, Str(<<>>))
    ELSE IF attune.t = "str" THEN Attunement(TRUE, attune)
    ELSE Attunement(FALSE, Str(<<>>))

Always(x) == TRUE

normalize_focus(focus) ==
    IF focus.t = "null" \/ focus = Bool(FALSE) THEN List(<<>>)
    ELSE IF focus = Bool(TRUE) THEN List(<<Str(<<"a", "n", "y">>)>>)
    ELSE IF focus.t = "list" THEN List(SelectMap(focus.items, Always, PyStr))
    ELSE List(<<>>)

normalize_resist(resist) ==
    IF resist.t = "null" THEN List(<<>>)
    ELSE IF resist.t = "list" THEN List(SelectMap(resist.items, IsStr, PyStr))
    ELSE List(<<>>)

normalize_recharge_amount(recharge) ==
    IF recharge.t = "null" THEN IntV(0)
    ELSE IF recharge.t \in {"int", "bool"} THEN recharge
    ELSE IF recharge.t = "str" THEN
        IF Contains(recharge.s, "d") THEN IntOr(Split(recharge.s, "d")[1], 1)
        ELSE IntOr(recharge.s, 1)
    ELSE IntV(0)

normalize_charges(charges) ==
    IF charges.t = "null" THEN IntV(0)
    ELSE IF charges.t \in {"int", "bool"} THEN charges
    ELSE IF charges.t = "str" THEN IntOr(charges.s, 0)
    ELSE IntV(0)

normalize_attached_spells(spells) ==
    IF spells.t = "null" THEN List(<<>>)
    ELSE IF spells.t = "list" THEN List(SelectMap(spells.items, Always, PyStr))
    ELSE IF spells.t = "dict" /\ GetOr(spells, "spells", List(<<>>)).t = "list"
         THEN List(SelectMap(GetOr(spells, "spells", List(<<>>)).items, Always, PyStr))
    ELSE List(<<>>)

normalize_float_field(value) ==
    IF value.t = "null" THEN Float(0, 1)
    ELSE IF value.t \in {"int", "float", "bool"} THEN PyFloat(value)
    ELSE IF value.t = "str" THEN
        (IF IsRaise(PyFloatOfStr(value.s)) THEN Float(0, 1) ELSE PyFloatOfStr(value.s))
    ELSE Float(0, 1)

----------------------------------------------------------------------------
(* clean_items.py: clean_item *)

\* [normalize_float_field(w) for w in x] if isinstance(x, list) else [normalize_float_field(x)]
FloatList(x) ==
    IF x.t = "list" THEN List(SelectMap(x.items, Always, normalize_float_field))
    ELSE List(<<normalize_float_field(x)>>)

\* value.split('|')[0] when value is a str holding '|', else value
StripField(value) ==
    IF value.t = "str" /\ Contains(value.s, "|") THEN Str(StripSource(value.s)) ELSE value

\* the keys clean_item assigns whether or not the item holds them
AlwaysSet == {"value", "weight", "property", "rarity"}

\* the value clean_item leaves under key k of cleaned (k is one of AlwaysSet, or
\* "property_notes", or a key of item), or the exception the rule of k raises
CleanedField(item, k) ==
    CASE k = "value" -> normalize_value(Get(item, "value"))
      [] k = "weight" -> normalize_weight(Get(item, "weight"))
      [] k = "property" ->
            LET props == normalize_property(Get(item, "property"))
            IN IF IsRaise(props) THEN props ELSE props.properties
      [] k = "property_notes" ->
            LET props == normalize_property(Get(item, "property"))
            IN IF ~IsRaise(props) /\ ~Falsy(props.notes) THEN props.notes ELSE Get(item, k)
      [] k = "rarity" ->
            IF ~Has(item, k) \/ Falsy(item.d[k]) THEN Str(<<"n", "o", "n", "e">>) ELSE item.d[k]
      [] k = "range" ->
            LET range_data == normalize_range(item.d[k])
            IN IF IsRaise(range_data) THEN range_data
               ELSE Dict([f \in {"normal", "long"} |->
                       IF f = "normal" THEN range_data.d["normal"]
                       ELSE IF range_data.d["long"] # Null THEN range_data.d["long"]
                       ELSE IntV(0)])
      [] k = "mastery" ->
            LET mastery_data == normalize_mastery(item.d[k])
            IN IF IsRaise(mastery_data) THEN mastery_data
               ELSE List(SelectMap(mastery_data.items, Always,
                       LAMBDA m : IF m.t # "dict" THEN PyStr(m)
                                  ELSE PyStr(GetOr(m, "name", Str(<<>>)))))
      [] k \in {"type", "ammoType"} -> StripField(item.d[k])
      [] k = "reprintedAs" -> normalize_reprinted_as(item.d[k])
      [] k \in {"srd", "srd52"} -> normalize_srd_field(item.d[k])
      [] k \in {"entries", "additionalEntries"} -> normalize_entries(item.d[k])
      [] k = "packContents" -> normalize_pack_contents(item.d[k])
      [] k = "strength" -> normalize_strength(item.d[k])
      [] k = "reqAttune" -> normalize_attunement(item.d[k])
      [] k = "focus" -> normalize_focus(item.d[k])
      [] k = "resist" -> normalize_resist(item.d[k])
      [] k = "rechargeAmount" -> normalize_recharge_amount(item.d[k])
      [] k = "charges" -> normalize_charges(item.d[k])
      [] k = "attachedSpells" -> normalize_attached_spells(item.d[k])
      [] k \in {"vehSpeed", "capCargo"} -> normalize_float_field(item.d[k])
      [] k = "containerCapacity" ->
            IF item.d[k].t = "dict"
            THEN Dict([f \in DOMAIN item.d[k].d |->
                        IF f \in {"weight", "volume"} THEN FloatList(item.d[k].d[f])
                        ELSE item.d[k].d[f]])
            ELSE item.d[k]
      [] k = "barDimensions" ->
            IF item.d[k].t = "dict" /\ Has(item.d[k], "h")
            THEN Put(item.d[k], "h", normalize_float_field(item.d[k].d["h"]))
            ELSE item.d[k]
      [] OTHER -> item.d[k]

\* the rules that can raise, in the order of clean_item's statements
RaisingRules ==
    <<"value", "weight", "property", "range", "mastery", "reprintedAs", "entries",
      "packContents", "additionalEntries">>

\* clean_item's statements assign one key each and read only item, so the cleaned
\* record is given key by key; the exception raised is that of the first
\* statement that raises
clean_item(item) ==
    LET ruled == {i \in 1..Len(RaisingRules) :
                    RaisingRules[i] \in AlwaysSet \cup DOMAIN item.d}
        raising == {i \in ruled : IsRaise(CleanedField(item, RaisingRules[i]))}
        notes == normalize_property(Get(item, "property")).notes
        keys == ((DOMAIN item.d \cup AlwaysSet)
                 \cup (IF ~Falsy(notes) THEN {"property_notes"} ELSE {})) \ {"_copy"}
    IN IF raising # {}
       THEN CleanedField(item, RaisingRules[CHOOSE i \in raising : \A j \in raising : i <= j])
       ELSE Dict([k \in keys |-> CleanedField(item, k)])

----------------------------------------------------------------------------
(* clean_monsters.py: the challenge rating *)

normalize_cr(cr_data) ==
    IF cr_data.t = "null" THEN Float(0, 1)
    ELSE IF cr_data.t \in {"int", "float", "bool"} THEN PyFloat(cr_data)
    ELSE IF cr_data.t = "str" THEN
        IF Contains(cr_data.s, "/") THEN
            LET parts == Split(cr_data.s, "/")
                a == PyFloatOfStr(parts[1])
                b == PyFloatOfStr(parts[2])
            IN IF IsRaise(a) THEN a
               ELSE IF IsRaise(b) THEN b
               ELSE IF b.n = 0 THEN Raise("ZeroDivisionError")
               ELSE Ratio(a.n * b.d, a.d * b.n)
        ELSE IF IsRaise(PyFloatOfStr(cr_data.s)) THEN Float(0, 1)
        ELSE PyFloatOfStr(cr_data.s)
    ELSE Float(0, 1)

\* clean_monster, as far as the challenge rating goes: cleaned['cr'] = normalize_cr(...)
clean_monster_cr(monster) ==
    IF IsRaise(normalize_cr(Get(monster, "cr"))) THEN normalize_cr(Get(monster, "cr"))
    ELSE Put(monster, "cr", normalize_cr(Get(monster, "cr")))

----------------------------------------------------------------------------
(* The raw records the rules are applied to *)

\* the longest string of the enumerated strings
MaxStrLen == 3
\* the longest list of the enumerated lists
MaxListLen == 2

Chars == {"3", "0", "/", "x"}
Strings == UNION {[1..k -> Chars] : k \in 0..MaxStrLen}
\* "30/120"
Str30_120 == Str(<<"3", "0", "/", "1", "2", "0">>)
Str1d6 == Str(<<"1", "d", "6">>)
StrThrown == Str(<<"t", "h", "r", "o", "w", "n">>)

ListsOf(S) == UNION {{List(xs) : xs \in [1..k -> S]} : k \in 0..MaxListLen}

Scalars == {Null, IntV(0), IntV(3), Bool(TRUE), Bool(FALSE), Float(1, 2), List(<<>>), EmptyDict}

Coins == {"cp", "sp", "gp", "pp", "ep"}
CoinMaps == UNION {[S -> {IntV(5), IntV(10)}] : S \in SUBSET Coins}

ValueShapes ==
    {Null, List(<<>>), List(<<IntV(5)>>), Str(<<"3">>), Str(<<>>), Dict("gp" :> Null)}
    \cup {IntV(n) : n \in {0 - 5, 0, 1, 5, 50, 99, 100, 101, 150, 500}}
    \* 0.5, 2.25, 150.5, true, false
    \cup {Float(1, 2), Float(9, 4), Float(301, 2), Bool(TRUE), Bool(FALSE)}
    \cup {Dict(f) : f \in CoinMaps}

PropertyRecord(uid, note) ==
    IF note = Absent THEN Dict("uid" :> uid) ELSE Dict("uid" :> uid @@ "note" :> note)

PropElems ==
    {Str(<<"F">>), Str(<<"T">>), IntV(1), EmptyDict, Dict("uid" :> Null)}
    \cup {PropertyRecord(Str(uid), note) :
            uid \in {<<"T", "|", "X">>, <<"F", "|", "X">>, <<"T">>},
            note \in {Absent, StrThrown, Str(<<"m">>), Str(<<>>)}}

EntryElems ==
    {Str(<<"a">>), IntV(1),
     Dict("type" :> Str(<<"l">>) @@ "items" :> List(<<Str(<<"b">>), IntV(1), Str(<<"c">>)>>)),
     Dict("items" :> Str(<<"b">>)),
     Dict("entries" :> List(<<Str(<<"c">>)>>)),
     Dict("entries" :> List(<<Dict("entries" :> List(<<Str(<<"d">>)>>)), Str(<<"e">>)>>)),
     Dict("entries" :> IntV(1)),
     Dict("name" :> Str(<<"n">>))}

NameElems ==
    {Str(<<"S">>), Str(<<"S", "|", "X">>), IntV(1),
     Dict("name" :> Str(<<"n">>)), Dict("name" :> Str(<<>>)), EmptyDict}

PackElems ==
    {Str(<<"i">>), IntV(1), EmptyDict,
     Dict("item" :> Str(<<"i">>) @@ "quantity" :> IntV(2)), Dict("item" :> Str(<<"j">>))}

TextElems == {Str(<<"a">>), Str(<<"b">>), IntV(1), Null, Bool(TRUE)}

CapacityShapes ==
    {Dict("weight" :> w) : w \in {IntV(3), List(<<IntV(3), Str(<<"x">>)>>), Str(<<"3">>)}}
    \cup {Dict("volume" :> IntV(3) @@ "weight" :> List(<<Float(1, 2)>>)), Dict("h" :> IntV(3)),
          Dict("h" :> Str(<<"3">>) @@ "l" :> IntV(3))}

Strs == {Str(s) : s \in Strings}

\* the shapes enumerated for each field clean_item reads
Shapes(field) ==
    CASE field = "value" -> ValueShapes
      [] field = "property" -> Scalars \cup ListsOf(PropElems) \cup {Str(<<"F">>)}
      [] field \in {"entries", "additionalEntries"} -> Scalars \cup ListsOf(EntryElems)
      [] field = "mastery" -> Scalars \cup ListsOf(NameElems \ {IntV(1)}) \cup {List(<<IntV(1)>>)}
      [] field = "reprintedAs" -> Scalars \cup ListsOf(NameElems)
      [] field = "packContents" -> Scalars \cup ListsOf(PackElems)
      [] field \in {"focus", "resist"} -> Scalars \cup ListsOf(TextElems) \cup {Str(<<"a">>)}
      [] field = "attachedSpells" ->
            Scalars \cup ListsOf(TextElems)
            \cup {Dict("spells" :> x) : x \in ListsOf(TextElems) \cup {Null}}
      [] field \in {"containerCapacity", "barDimensions"} -> Scalars \cup CapacityShapes
      [] field \in {"type", "ammoType", "rarity"} ->
            Scalars \cup {Str(<<"M">>), Str(<<"M", "|", "X">>), Str(<<>>)}
      [] field = "rechargeAmount" -> Scalars \cup Strs \cup {Str1d6, Str(<<"x", "d", "6">>)}
      [] field = "range" -> Scalars \cup Strs \cup {Str30_120}
      [] field = "_copy" -> {EmptyDict}
      [] OTHER -> Scalars \cup Strs

ItemFields ==
    {"value", "weight", "property", "rarity", "range", "mastery", "type", "ammoType",
     "reprintedAs", "srd", "srd52", "entries", "packContents", "strength", "reqAttune",
     "focus", "resist", "rechargeAmount", "charges", "attachedSpells", "vehSpeed",
     "capCargo", "additionalEntries", "containerCapacity", "barDimensions", "_copy"}

BaseItem == Dict("name" :> Str(<<"A">>))

\* {"name": ..., "value": {"gp": 5}, "property": ["F", {"uid": "T|X", "note": "thrown"}]}
DaggerOfVenom ==
    Dict("name" :> Str(<<"D">>) @@ "value" :> Dict("gp" :> IntV(5))
         @@ "property" :> List(<<Str(<<"F">>), PropertyRecord(Str(<<"T", "|", "X">>), StrThrown)>>))

\* the raw item records: one field of one enumerated shape each, and the example
RawItems ==
    {BaseItem, DaggerOfVenom}
    \cup UNION {{Put(BaseItem, f, v) : v \in Shapes(f)} : f \in ItemFields}

\* the raw monster records, as far as the challenge rating goes
RawMonsters ==
    {BaseItem} \cup {Put(BaseItem, "cr", v) : v \in Scalars \cup Strs \cup {Dict("cr" :> Str(<<"3">>))}}

----------------------------------------------------------------------------
(* One record through the rules *)

\* the record rules at rest
IdleClean == rule = "idle" /\ raw = Null /\ cleaned = NotRun /\ recleaned = NotRun
\* no function of the extraction phase applied
IdleExtract ==
    applied = "idle" /\ subject = Null /\ produced = NotRun /\ again = NotRun /\ stored = NotRun
\* validate_import.py not running
IdleValidate == pcValidate = "idle" /\ validation = Null /\ exitValidate = NotRun
\* no import script running
IdleImport ==
    database = Null /\ pending = Null /\ lookupCache = Null /\ stats = Null /\ called = Null
\* extract_all.py not running
IdleExtractAll == pcExtractAll = -1 /\ started = <<>> /\ returnCode = NotRun
IdleTools == IdleValidate /\ IdleImport /\ IdleExtractAll
\* clean_all.py not running step by step
IdleCleanAll == pcAll = -1 /\ results = <<>> /\ exitStatus = NotRun
\* run_pipeline.py not running
IdlePipeline ==
    /\ args = Null /\ pc = "idle" /\ fn = "idle" /\ phaseResults = <<>> /\ steps = <<>>
    /\ returned = NotRun /\ exitCode = NotRun

InitClean ==
    /\ rule = "none"
    /\ raw \in RawItems \cup RawMonsters
    /\ cleaned = NotRun
    /\ recleaned = NotRun
    /\ disk = Absent /\ IdleCleanAll /\ IdlePipeline /\ IdleExtract
    /\ IdleTools

\* cleaned = clean_item(item), the body of main's loops
CleanItem ==
    /\ rule = "none"
    /\ raw \in RawItems
    /\ rule' = "item"
    /\ cleaned' = clean_item(raw)
    /\ UNCHANGED <<raw, recleaned, cleanAllVars, pipeVars, extractVars, toolVars>>

\* cleaned = clean_monster(monster)
CleanMonster ==
    /\ rule = "none"
    /\ raw \in RawMonsters
    /\ rule' = "monster"
    /\ cleaned' = clean_monster_cr(raw)
    /\ UNCHANGED <<raw, recleaned, cleanAllVars, pipeVars, extractVars, toolVars>>

\* clean_item applied to a record clean_item returned
RecleanItem ==
    /\ rule = "item"
    /\ ~IsRaise(cleaned)
    /\ recleaned = NotRun
    /\ recleaned' = clean_item(cleaned)
    /\ UNCHANGED <<rule, raw, cleaned, cleanAllVars, pipeVars, extractVars, toolVars>>

NextClean == CleanItem \/ CleanMonster \/ RecleanItem

SpecClean == InitClean /\ [][NextClean]_vars

----------------------------------------------------------------------------
(* Claims about one record through the rules (SpecClean) *)

RECURSIVE SumOver(_, _)
SumOver(S, f) ==
    IF S = {} THEN 0
    ELSE LET x == CHOOSE y \in S : TRUE IN f[x] + SumOver(S \ {x}, f)

\* the worth of each denomination in copper pieces
CoinWorth == [c \in {"cp", "sp", "gp", "pp"} |->
                CASE c = "cp" -> 1 [] c = "sp" -> 10 [] c = "gp" -> 100 [] c = "pp" -> 1000]

\* a denomination map: every amount is an integer
IsCoinMap(v) == v.t = "dict" /\ \A c \in DOMAIN v.d : v.d[c].t = "int"

CoinSum(v) ==
    SumOver(DOMAIN v.d \cap DOMAIN CoinWorth,
            [c \in DOMAIN v.d \cap DOMAIN CoinWorth |-> v.d[c].v * CoinWorth[c]])

\* C4: cleaning an already cleaned item record again changes no field.
CleanItemIdempotent == recleaned # NotRun => recleaned = cleaned

\* C6: whatever the shape of the weight, of the range or of the challenge
\* rating (a non-numeric string included), clean_item and clean_monster return
\* a record: the field rule does not raise.
FieldRulesNeverRaise ==
    /\ rule = "item" /\ DOMAIN raw.d \subseteq {"name", "weight", "range"} => ~IsRaise(cleaned)
    /\ rule = "monster" => ~IsRaise(cleaned)

IsPlainRange(r) == r.t = "str" /\ IsDigits(r.s)
IsLongRange(r) ==
    /\ r.t = "str"
    /\ \E i \in 1..Len(r.s) :
          /\ r.s[i] = "/"
          /\ IsDigits(SubSeq(r.s, 1, i - 1))
          /\ IsDigits(SubSeq(r.s, i + 1, Len(r.s)))
RangeNormal(r) == IntV(DigitsVal(SelectSeq(SubSeq(r.s, 1,
                     (CHOOSE i \in 1..(Len(r.s) + 1) :
                        /\ i = Len(r.s) + 1 \/ r.s[i] = "/"
                        /\ \A j \in 1..(i - 1) : r.s[j] # "/") - 1), LAMBDA c : TRUE)))
RangeLong(r) == IntV(DigitsVal(SubSeq(r.s,
                     (CHOOSE i \in 1..Len(r.s) : r.s[i] = "/") + 1, Len(r.s))))
RangeOf(normal, long) ==
    Dict([k \in {"normal", "long"} |-> IF k = "normal" THEN normal ELSE long])

\* C9 as stated: the range of the record clean_item emits is {N, M} for "N/M",
\* {N, null} for "N" and {null, null} for null.
RangeCanonicalEmitted ==
    rule = "item" /\ Has(raw, "range") =>
        LET r == raw.d["range"] IN
        /\ IsLongRange(r) => cleaned.d["range"] = RangeOf(RangeNormal(r), RangeLong(r))
        /\ IsPlainRange(r) => cleaned.d["range"] = RangeOf(RangeNormal(r), Null)
        /\ r = Null => cleaned.d["range"] = RangeOf(Null, Null)

\* C9 amended: normalize_range gives {N, M} for "N/M", {N, null} for "N" and
\* {null, null} for null, and the record clean_item emits holds the same range
\* with 0 in place of a null long.
RangeCanonicalAmended ==
    rule = "item" /\ Has(raw, "range") =>
        LET r == raw.d["range"] IN
        /\ IsLongRange(r) =>
              /\ normalize_range(r) = RangeOf(RangeNormal(r), RangeLong(r))
              /\ cleaned.d["range"] = RangeOf(RangeNormal(r), RangeLong(r))
        /\ IsPlainRange(r) =>
              /\ normalize_range(r) = RangeOf(RangeNormal(r), Null)
              /\ cleaned.d["range"] = RangeOf(RangeNormal(r), IntV(0))
        /\ r = Null =>
              /\ normalize_range(r) = RangeOf(Null, Null)
              /\ cleaned.d["range"] = RangeOf(Null, IntV(0))

RangeWitness ==
    /\ rule = "item"
    /\ raw = Put(BaseItem, "range", Str30_120)
    /\ cleaned.d["range"] = RangeOf(IntV(30), IntV(120))

\* the element is a plain code, or a record {uid, note?} whose uid is a string
\* and whose note, if any, is a string
IsPlainCode(p) == p.t = "str" /\ ~Contains(p.s, "|")
IsTaggedRecord(p) ==
    /\ p.t = "dict" /\ Has(p, "uid") /\ DOMAIN p.d \subseteq {"uid", "note"}
    /\ p.d["uid"].t = "str"
    /\ Has(p, "note") => p.d["note"].t = "str"
CarriesNote(p) == p.t = "dict" /\ Has(p, "note") /\ p.d["note"] # Str(<<>>)
\* the code of an element: the plain code, or the uid up to its first '|'
CodeOf(p) ==
    IF p.t = "str" THEN p.s
    ELSE LET uid == p.d["uid"].s
             bars == {i \in 1..Len(uid) : uid[i] = "|"}
         IN IF bars = {} THEN uid
            ELSE SubSeq(uid, 1, (CHOOSE i \in bars : \A j \in bars : i <= j) - 1)

----------------------------------------------------------------------------
(* validate_cleaned.py *)

\* the number of elements of a list check_record_types samples
SampleSize == 10

\* the <<path, type name>> pairs check_record_types counts below obj
RECURSIVE check_record_types(_, _)
check_record_types(obj, path) ==
    IF obj.t = "dict" THEN
        UNION {LET new_path == IF path # "" THEN path \o "." \o key ELSE key
                   value == obj.d[key]
               IN {<<new_path, TypeName(value)>>}
                  \cup (IF value.t \in {"dict", "list"}
                        THEN check_record_types(value, new_path) ELSE {})
               : key \in DOMAIN obj.d}
    ELSE IF obj.t = "list" /\ obj.items # <<>> THEN
        {<<path \o "[]", TypeName(obj.items[i])>> :
            i \in 1..(IF Len(obj.items) < SampleSize THEN Len(obj.items) ELSE SampleSize)}
    ELSE {}

\* data is the list of records of one artifact; the type counters are kept as
\* the set of type names seen at each path
check_type_consistency(data, name) ==
    LET field_types ==
            UNION {check_record_types(data.items[i], "") : i \in 1..Len(data.items)}
        fields == {pt[1] : pt \in field_types}
        polymorphic_fields ==
            {f \in fields : Cardinality({pt[2] : pt \in {q \in field_types : q[1] = f}}) > 1}
    IN [dataset |-> name,
        total_records |-> Len(data.items),
        unique_fields |-> Cardinality(fields),
        polymorphic_fields |-> polymorphic_fields,
        is_valid |-> polymorphic_fields = {}]

\* the artifacts validate_cleaned.main finds, by dataset name
Artifacts(d) ==
    [name \in {"items", "monsters", "spells"} |->
        CASE name = "items" -> d.cleanedItems
          [] name = "monsters" -> d.cleanedMonsters
          [] name = "spells" -> d.cleanedSpells]

\* main: the datasets whose artifact exists are checked, the overall verdict
\* goes into the two reports, and the script ends; writing a report raises
\* when cleaned_data/ does not exist
validate_cleaned_main(d) ==
    LET validated == {name \in DOMAIN Artifacts(d) : Artifacts(d)[name] # Absent}
        type_consistency ==
            [name \in validated |-> check_type_consistency(Artifacts(d)[name], name)]
        all_valid == \A name \in validated : type_consistency[name].is_valid
        validation_results ==
            [summary |-> [all_valid |-> all_valid, datasets_validated |-> Cardinality(validated)],
             type_consistency |-> type_consistency]
    IN IF ~d.cleanedDir THEN [disk |-> d, rc |-> 1]
       ELSE [disk |-> [d EXCEPT !.validationReport = validation_results], rc |-> 0]

----------------------------------------------------------------------------
(* The main functions of clean_items.py, clean_monsters.py, clean_spells.py *)

\* a source directory and its files in sorted order, each with the records
\* under its top-level key
Dir(files) == [t |-> "dir", files |-> files]

\* a string the rules never take apart, kept whole
Text(s) == Str(<<s>>)

RECURSIVE Concat(_)
Concat(seqs) == IF seqs = <<>> THEN <<>> ELSE Head(seqs) \o Concat(Tail(seqs))

\* cleaned records stamped with the file they came from
Stamped(cleaned_records, file_name) ==
    [i \in 1..Len(cleaned_records) |->
        Put(cleaned_records[i], "_source_file", Text(file_name))]

\* the outcomes before the first exception
BeforeRaise(outcomes) ==
    LET raising == {i \in 1..Len(outcomes) : IsRaise(outcomes[i])}
    IN IF raising = {} THEN outcomes
       ELSE SubSeq(outcomes, 1, (CHOOSE i \in raising : \A j \in raising : i <= j) - 1)

\* the end of clean_items.main, given the outcome of clean_item on each
\* record of the two files: an exception is not caught and ends the script
\* before the artifact is written
SaveItems(d, base_cleaned, magic_cleaned) ==
    IF \E i \in 1..Len(base_cleaned \o magic_cleaned) : IsRaise((base_cleaned \o magic_cleaned)[i])
    THEN [disk |-> d, rc |-> 1]
    ELSE [disk |-> [d EXCEPT !.cleanedDir = TRUE,
                             !.cleanedItems = List(Stamped(base_cleaned, "items-base.json")
                                                   \o Stamped(magic_cleaned, "items.json"))],
          rc |-> 0]

\* the records of the two item files, a file that does not exist being
\* passed over, each with the file it is in
ItemRecords(d) ==
    [file \in {"items-base.json", "items.json"} |->
        LET content == IF file = "items-base.json" THEN d.itemsBase ELSE d.items
        IN IF content # Absent THEN content.items ELSE <<>>]

clean_items_main(d) ==
    LET outcome == [file \in DOMAIN ItemRecords(d) |->
                       [i \in 1..Len(ItemRecords(d)[file]) |-> clean_item(ItemRecords(d)[file][i])]]
    IN SaveItems(d, outcome["items-base.json"], outcome["items.json"])

\* clean_spell, as far as the school goes
clean_spell_school(spell) ==
    IF Has(spell, "school") /\ spell.d["school"].t = "str" /\ Contains(spell.d["school"].s, "|")
    THEN Put(spell, "school", Str(Split(spell.d["school"].s, "|")[1]))
    ELSE spell

\* the loop over the files of a source directory, given the outcome of the
\* cleaner on each record of each file: an exception inside a file is caught,
\* and the records cleaned before it stay
SaveFiles(files, outcomes) ==
    List(Concat([i \in 1..Len(files) |-> Stamped(BeforeRaise(outcomes[i]), files[i].name)]))

\* clean_monsters.main: a missing directory is reported and the script returns
clean_monsters_main(d) ==
    IF d.bestiary = Absent THEN [disk |-> d, rc |-> 0]
    ELSE [disk |-> [d EXCEPT
                     !.cleanedDir = TRUE,
                     !.cleanedMonsters =
                         SaveFiles(d.bestiary.files,
                                   [i \in 1..Len(d.bestiary.files) |->
                                      [j \in 1..Len(d.bestiary.files[i].records) |->
                                         clean_monster_cr(d.bestiary.files[i].records[j])]])],
          rc |-> 0]

\* clean_spells.main: a missing directory is reported and the script returns
clean_spells_main(d) ==
    IF d.spells = Absent THEN [disk |-> d, rc |-> 0]
    ELSE [disk |-> [d EXCEPT
                     !.cleanedDir = TRUE,
                     !.cleanedSpells =
                         SaveFiles(d.spells.files,
                                   [i \in 1..Len(d.spells.files) |->
                                      [j \in 1..Len(d.spells.files[i].records) |->
                                         clean_spell_school(d.spells.files[i].records[j])]])],
          rc |-> 0]

----------------------------------------------------------------------------
(* clean_all.py *)

scripts ==
    <<[script |-> "clean_items.py", description |-> "Item Data Cleaning"],
      [script |-> "clean_monsters.py", description |-> "Monster Data Cleaning"],
      [script |-> "clean_spells.py", description |-> "Spell Data Cleaning"],
      [script |-> "validate_cleaned.py", description |-> "Data Validation"]>>

\* the script run as a subprocess on the disk d
RunProcess(script_name, d) ==
    CASE script_name = "clean_items.py" -> clean_items_main(d)
      [] script_name = "clean_monsters.py" -> clean_monsters_main(d)
      [] script_name = "clean_spells.py" -> clean_spells_main(d)
      [] script_name = "validate_cleaned.py" -> validate_cleaned_main(d)

\* run_script: check=True turns a non-zero exit status into
\* CalledProcessError, which is reported as False
Completed(process) == [disk |-> process.disk, success |-> process.rc = 0]
run_script(script_name, d) == Completed(RunProcess(script_name, d))

\* the end of clean_all.main: the report is written (which raises when
\* cleaned_data/ does not exist) and the exit status follows all_success
clean_all_report(d, res) ==
    LET all_success == \A i \in 1..Len(res) : res[i].success
    IN IF ~d.cleanedDir THEN [disk |-> d, rc |-> 1]
       ELSE [disk |-> [d EXCEPT !.cleaningReport = [t |-> "report", operations |-> res]],
             rc |-> IF all_success THEN 0 ELSE 1]

\* the loop of clean_all.main from script i on, then the report; ran is the
\* outcome of run_script on script i
RECURSIVE clean_all_from(_, _, _)
clean_all_next(i, ran, res) ==
    IF ran.success
    THEN clean_all_from(i + 1, ran.disk,
                        Append(res, [description |-> scripts[i].description, success |-> TRUE]))
    ELSE clean_all_report(ran.disk,
                          Append(res, [description |-> scripts[i].description, success |-> FALSE]))

clean_all_from(i, d, res) ==
    IF i > Len(scripts) THEN clean_all_report(d, res)
    ELSE clean_all_next(i, run_script(scripts[i].script, d), res)

\* clean_all.py run from start to end on the disk d
clean_all_main(d) == clean_all_from(1, d, <<>>)

----------------------------------------------------------------------------
(* The disks clean_all.py is run on *)

\* the longest list of records in items-base.json
MaxCorpus == 2

Range30 == Str(<<"3", "0">>)

CorpusItems ==
    {DaggerOfVenom, Put(BaseItem, "range", Range30), Put(BaseItem, "range", Null),
     Put(BaseItem, "range", Str30_120), Put(BaseItem, "weight", Str(<<"x">>))}

ItemCorpora == {List(xs) : xs \in UNION {[1..n -> CorpusItems] : n \in 0..MaxCorpus}}

Monster(cr) == Put(BaseItem, "cr", cr)

Bestiaries ==
    {Dir(<<>>),
     Dir(<<[name |-> "bestiary-a.json", records |-> <<Monster(Str(<<"3">>))>>]>>),
     Dir(<<[name |-> "bestiary-a.json",
            records |-> <<Monster(Str(<<"1", "/", "2">>)), Monster(Str(<<"3", "/", "0">>)),
                          BaseItem>>],
           [name |-> "bestiary-b.json", records |-> <<BaseItem>>]>>)}

SpellFiles ==
    {Dir(<<>>),
     Dir(<<[name |-> "spells-a.json",
            records |-> <<Put(BaseItem, "school", Str(<<"V", "|", "X">>)),
                          Put(BaseItem, "school", IntV(1))>>]>>)}

\* the source files, with no cleaned_data/ yet
Disks ==
    [itemsBase : {Absent} \cup ItemCorpora,
     items : {Absent, List(<<>>), List(<<DaggerOfVenom>>)},
     bestiary : {Absent} \cup Bestiaries,
     spells : {Absent} \cup SpellFiles,
     cleanedDir : {FALSE},
     cleanedItems : {Absent}, cleanedMonsters : {Absent}, cleanedSpells : {Absent},
     validationReport : {Absent}, cleaningReport : {Absent}]

----------------------------------------------------------------------------
(* clean_all.py, script by script *)

InitCleanAll ==
    /\ disk \in Disks
    /\ pcAll = 1
    /\ results = <<>>
    /\ exitStatus = NotRun
    /\ IdleClean /\ IdlePipeline /\ IdleExtract
    /\ IdleTools

\* one turn of the loop over scripts: the script is run, its result is
\* recorded, and a failure ends the loop
RunScript ==
    /\ pcAll \in 1..Len(scripts)
    /\ \E ran \in {run_script(scripts[pcAll].script, disk)} :
          /\ disk' = ran.disk
          /\ results' = Append(results, [description |-> scripts[pcAll].description,
                                         success |-> ran.success])
          /\ pcAll' = IF ran.success /\ pcAll < Len(scripts) THEN pcAll + 1 ELSE 0
    /\ UNCHANGED <<exitStatus, cleanVars, pipeVars, extractVars, toolVars>>

\* the summary report and the exit
ReportAndExit ==
    /\ pcAll = 0
    /\ \E ended \in {clean_all_report(disk, results)} :
          /\ disk' = ended.disk
          /\ exitStatus' = IntV(ended.rc)
    /\ pcAll' = -1
    /\ UNCHANGED <<results, cleanVars, pipeVars, extractVars, toolVars>>

NextCleanAll == RunScript \/ ReportAndExit

SpecCleanAll == InitCleanAll /\ [][NextCleanAll]_vars

----------------------------------------------------------------------------
(* Claims about clean_all.py (SpecCleanAll) *)

\* the values a record holds at a field path; "[]" steps into the elements
\* of a list
RECURSIVE ValuesAt(_, _)
ValuesAt(value, path) ==
    IF path = <<>> THEN {value}
    ELSE IF Head(path) = "[]"
    THEN IF value.t = "list"
         THEN UNION {ValuesAt(value.items[i], Tail(path)) : i \in 1..Len(value.items)}
         ELSE {}
    ELSE IF value.t = "dict" /\ Has(value, Head(path))
         THEN ValuesAt(value.d[Head(path)], Tail(path))
         ELSE {}

\* the field paths clean_item canonicalizes
CanonicalPaths ==
    {<<"value">>, <<"weight">>, <<"property">>, <<"property", "[]">>, <<"rarity">>,
     <<"range">>, <<"range", "normal">>, <<"range", "long">>,
     <<"reqAttune">>, <<"reqAttune", "required">>, <<"reqAttune", "description">>,
     <<"strength">>, <<"charges">>}

\* C5: in the item artifact clean_items.py writes, every field path clean_item
\* canonicalizes holds values of one runtime type in all records.
TypeUniformity ==
    disk.cleanedItems # Absent =>
        \A path \in CanonicalPaths :
            Cardinality({TypeName(v) :
                v \in UNION {ValuesAt(disk.cleanedItems.items[i], path) :
                                i \in 1..Len(disk.cleanedItems.items)}}) <= 1

\* C7: when items-base.json, items.json, the bestiary directory or the spells
\* directory is missing, clean_all.py ends with a failing exit status and no
\* artifact of that kind is written.
MissingInputFailsFast ==
    pcAll = -1 =>
        /\ disk.itemsBase = Absent \/ disk.items = Absent =>
              disk.cleanedItems = Absent /\ exitStatus # IntV(0)
        /\ disk.bestiary = Absent => disk.cleanedMonsters = Absent /\ exitStatus # IntV(0)
        /\ disk.spells = Absent => disk.cleanedSpells = Absent /\ exitStatus # IntV(0)

----------------------------------------------------------------------------
(* run_pipeline.py: PipelineOrchestrator *)

\* run_command: the status of a command from its exit status; an exception
\* starting the command counts as FAILED
StatusOf(outcome) ==
    IF IsRaise(outcome) THEN "failed"
    ELSE IF outcome.v = 0 THEN "success"
    ELSE IF outcome.v = 3 THEN "warning"
    ELSE "failed"

\* commands run one after the other under the given phase names, up to and
\* including the first that is FAILED: the results they append
CommandResults(phases, outcomes) ==
    LET failing == {i \in 1..Len(phases) : StatusOf(outcomes[i]) = "failed"}
        last == IF failing = {} THEN Len(phases)
                ELSE CHOOSE i \in failing : \A j \in failing : i <= j
    IN [i \in 1..last |-> [phase |-> phases[i], status |-> StatusOf(outcomes[i])]]

\* no command of the results is FAILED
NoneFailed(command_results) ==
    \A i \in 1..Len(command_results) : command_results[i].status # "failed"

\* the steps of run_full in order; run_resume chains a suffix of them
FullOrder ==
    <<"phase_0", "phase_0_5", "phase_0_6", "checkpoint_extracted_data", "phase_1",
      "checkpoint_schema", "phase_2", "checkpoint_import", "phase_3">>

IndexOf(step) == CHOOSE i \in 1..Len(FullOrder) : FullOrder[i] = step

\* Proceed with a failed schema checkpoint not stopping the run
Proceed_past_checkpoint(function, step, outcome) ==
    IF outcome = "raise" THEN [pc |-> "returned", returned |-> IntV(1)]
    ELSE IF outcome = "fail" /\ step # "checkpoint_schema"
    THEN [pc |-> "returned",
          returned |-> IF function = "run_full" THEN IntV(1) ELSE Bool(FALSE)]
    ELSE IF IndexOf(step) < Len(FullOrder)
    THEN [pc |-> FullOrder[IndexOf(step) + 1], returned |-> NotRun]
    ELSE [pc |-> "returned",
          returned |-> IF function = "run_full" THEN IntV(0) ELSE Bool(TRUE)]

\* where control goes after a step: the next step while the step returned
\* True, the function's return value otherwise; an exception leaves through
\* run()'s handler, which returns 1
Proceed(function, step, outcome) ==
    IF outcome = "raise" THEN [pc |-> "returned", returned |-> IntV(1)]
    ELSE IF outcome = "fail"
    THEN [pc |-> "returned",
          returned |-> IF function = "run_full" THEN IntV(1) ELSE Bool(FALSE)]
    ELSE IF IndexOf(step) < Len(FullOrder)
    THEN [pc |-> FullOrder[IndexOf(step) + 1], returned |-> NotRun]
    ELSE [pc |-> "returned",
          returned |-> IF function = "run_full" THEN IntV(0) ELSE Bool(TRUE)]

\* sys.exit(exit_code): the exit status of the process
ExitStatusOf(exit_code) ==
    IF exit_code.t = "bool" THEN (IF exit_code.b THEN 1 ELSE 0) ELSE exit_code.v % 256

expected_tables == 38

\* checkpoint_schema, given how the two count queries ended and the last line
\* of their output: int() of a line that is not a number raises
SchemaCheck(count_tables, table_line, count_indexes, index_line) ==
    LET tables == <<[phase |-> "Count Tables", status |-> StatusOf(count_tables)]>>
        indexes == <<[phase |-> "Count Indexes", status |-> StatusOf(count_indexes)]>>
    IN IF ~NoneFailed(tables) THEN [outcome |-> "fail", ran |-> tables]
       ELSE IF IsRaise(PyIntOfStr(table_line.s)) THEN [outcome |-> "raise", ran |-> tables]
       ELSE IF PyIntOfStr(table_line.s).v # expected_tables
       THEN [outcome |-> "fail", ran |-> tables]
       ELSE IF ~NoneFailed(indexes) THEN [outcome |-> "fail", ran |-> tables \o indexes]
       ELSE IF IsRaise(PyIntOfStr(index_line.s))
       THEN [outcome |-> "raise", ran |-> tables \o indexes]
       ELSE [outcome |-> "ok", ran |-> tables \o indexes]

----------------------------------------------------------------------------
(* The runs of run_pipeline.py *)

\* the most commands of one run that end with warnings
MaxWarnings == 1

\* how a command can end: an exit status, or an exception starting it
CommandOutcomes == {IntV(0), IntV(1), IntV(3), Raise("OSError")}

\* the last line of a count query's output
TableCountLines == {Str(<<"3", "8">>), Str(<<"3", "7">>), Str(<<>>)}
IndexCountLines == {Str(<<"1", "4", "0">>), Str(<<"1", "3", "9">>), Str(<<>>)}

FromPhases == 0..4

Arguments ==
    [mode : {"full", "dry-run"}, from_phase : {Null}, drop : BOOLEAN,
     skip_analysis : BOOLEAN, skip_cleaning : BOOLEAN, skip_extraction : BOOLEAN,
     stop_on_warning : BOOLEAN]
    \cup [mode : {"resume"}, from_phase : {IntV(n) : n \in FromPhases}, drop : BOOLEAN,
          skip_analysis : BOOLEAN, skip_cleaning : BOOLEAN, skip_extraction : BOOLEAN,
          stop_on_warning : BOOLEAN]

NoDisk ==
    [itemsBase |-> Absent, items |-> Absent, bestiary |-> Absent, spells |-> Absent,
     cleanedDir |-> FALSE, cleanedItems |-> Absent, cleanedMonsters |-> Absent,
     cleanedSpells |-> Absent, validationReport |-> Absent, cleaningReport |-> Absent]

\* items whose range is "30" and null
MixedDisk ==
    [NoDisk EXCEPT !.itemsBase = List(<<Put(BaseItem, "range", Range30),
                                        Put(BaseItem, "range", Null)>>),
                   !.items = List(<<>>), !.bestiary = Dir(<<>>), !.spells = Dir(<<>>)]
\* an item whose weight is not a number
RaisingDisk ==
    [NoDisk EXCEPT !.itemsBase = List(<<Put(BaseItem, "weight", Str(<<"x">>))>>),
                   !.items = List(<<>>), !.bestiary = Dir(<<>>), !.spells = Dir(<<>>)]
\* the disk an earlier run of clean_all.py left
CleanedDisk ==
    clean_all_main([NoDisk EXCEPT !.itemsBase = List(<<DaggerOfVenom>>), !.items = List(<<>>),
                                  !.bestiary = Dir(<<>>), !.spells = Dir(<<>>)]).disk

PipelineDisks == {MixedDisk, RaisingDisk, CleanedDisk}

----------------------------------------------------------------------------
(* run_pipeline.py, step by step *)

InitPipeline ==
    /\ args \in Arguments
    /\ disk \in PipelineDisks
    /\ pc = "run" /\ fn = "run"
    /\ phaseResults = <<>> /\ steps = <<>>
    /\ returned = NotRun /\ exitCode = NotRun
    /\ IdleClean /\ IdleCleanAll /\ IdleExtract
    /\ IdleTools

\* run(): the mode selects the function, and run_resume the chain's first step
Run ==
    /\ pc = "run"
    /\ IF args.mode = "dry-run" THEN fn' = "run_dry_run" /\ pc' = "dry_run" /\ returned' = NotRun
       ELSE IF args.mode = "full" \/ args.from_phase.v <= 0
       THEN fn' = "run_full" /\ pc' = "phase_0" /\ returned' = NotRun
       ELSE /\ fn' = "run_resume"
            /\ pc' = CASE args.from_phase.v = 1 -> "phase_1"
                       [] args.from_phase.v = 2 -> "phase_2"
                       [] args.from_phase.v = 3 -> "phase_3"
                       [] OTHER -> "returned"
            /\ returned' = IF args.from_phase.v \in 1..3 THEN NotRun ELSE IntV(1)
    /\ UNCHANGED <<args, phaseResults, steps, exitCode, disk, cleanVars, extractVars, pcAll,
                   results,
                   exitStatus, toolVars>>

\* the step ends with the outcome, having appended results to self.results
Finish(step, outcome, ran) ==
    /\ Cardinality({i \in 1..Len(phaseResults \o ran) :
                       (phaseResults \o ran)[i].status = "warning"}) <= MaxWarnings
    /\ phaseResults' = phaseResults \o ran
    /\ steps' = Append(steps, [step |-> step, outcome |-> outcome])
    /\ pc' = Proceed(fn, step, outcome).pc
    /\ returned' = Proceed(fn, step, outcome).returned
    /\ UNCHANGED <<args, fn, exitCode, cleanVars, extractVars, pcAll, results, exitStatus,
                   toolVars>>

\* run_full passes over a phase its flag disables
Skip(step, phase) ==
    /\ phaseResults' = Append(phaseResults, [phase |-> phase, status |-> "skipped"])
    /\ pc' = Proceed(fn, step, "ok").pc
    /\ UNCHANGED <<args, fn, steps, returned, exitCode, disk, cleanVars, extractVars, pcAll,
                   results,
                   exitStatus, toolVars>>

\* the commands of a phase, one after the other up to the first FAILED
RunCommands(step, phases) ==
    \E outcomes \in [1..Len(phases) -> CommandOutcomes] :
        \E ran \in {CommandResults(phases, outcomes)} :
            Finish(step, IF NoneFailed(ran) THEN "ok" ELSE "fail", ran)

RunPhase0 ==
    /\ pc = "phase_0"
    /\ IF args.skip_analysis THEN Skip("phase_0", "Phase 0: Analysis")
       ELSE /\ RunCommands("phase_0", [i \in 1..4 |-> "Phase 0: Analysis"])
            /\ UNCHANGED disk

\* clean_all.py is run on the disk; its exit status is the command's
RunPhase05 ==
    /\ pc = "phase_0_5"
    /\ IF args.skip_cleaning THEN Skip("phase_0_5", "Phase 0.5: Cleaning")
       ELSE \E ended \in {clean_all_main(disk)} :
               /\ disk' = ended.disk
               /\ \E ran \in {CommandResults(<<"Phase 0.5: Cleaning">>, <<IntV(ended.rc)>>)} :
                     Finish("phase_0_5", IF NoneFailed(ran) THEN "ok" ELSE "fail", ran)

RunPhase06 ==
    /\ pc = "phase_0_6"
    /\ IF args.skip_extraction THEN Skip("phase_0_6", "Phase 0.6: Extraction")
       ELSE /\ RunCommands("phase_0_6", <<"Phase 0.6: Extraction">>)
            /\ UNCHANGED disk

\* the six extracted files are all there and hold records, or one is missing,
\* or one is not JSON, or one holds JSON that is neither a list nor an object
CheckpointExtractedData ==
    /\ pc = "checkpoint_extracted_data"
    /\ \E found \in {"valid", "missing", "invalid", "unreadable"} :
          Finish("checkpoint_extracted_data",
                 CASE found = "valid" -> "ok"
                   [] found \in {"missing", "invalid"} -> "fail"
                   [] found = "unreadable" -> "raise",
                 <<>>)
    /\ UNCHANGED disk

RunPhase1 ==
    /\ pc = "phase_1"
    /\ RunCommands("phase_1",
                   (IF args.drop THEN <<"Drop & Create Database">> ELSE <<>>)
                   \o <<"Create Schema", "Import Controlled Vocab">>)
    /\ UNCHANGED disk

CheckpointSchema ==
    /\ pc = "checkpoint_schema"
    /\ \E count_tables \in CommandOutcomes, count_indexes \in CommandOutcomes,
          table_line \in TableCountLines, index_line \in IndexCountLines :
          \E check \in {SchemaCheck(count_tables, table_line, count_indexes, index_line)} :
              Finish("checkpoint_schema", check.outcome, check.ran)
    /\ UNCHANGED disk

RunPhase2 ==
    /\ pc = "phase_2"
    /\ RunCommands("phase_2",
                   <<"Phase 2: Import Items", "Phase 2: Import Monsters",
                     "Phase 2: Import Spells", "Phase 2: Import Relationships">>)
    /\ UNCHANGED disk

CheckpointImport ==
    /\ pc = "checkpoint_import"
    /\ \E outcome \in CommandOutcomes :
          Finish("checkpoint_import",
                 IF StatusOf(outcome) = "failed" THEN "fail"
                 ELSE IF StatusOf(outcome) = "warning" /\ args.stop_on_warning THEN "fail"
                 ELSE "ok",
                 <<[phase |-> "Import Validation", status |-> StatusOf(outcome)]>>)
    /\ UNCHANGED disk

RunPhase3 ==
    /\ pc = "phase_3"
    /\ RunCommands("phase_3", <<"Phase 3: Validation", "Phase 3: Testing">>)
    /\ UNCHANGED disk

\* run_dry_run: the cleaned artifacts are looked for on the disk; the other
\* checks fail or pass with what is installed
RunDryRun ==
    /\ pc = "dry_run"
    /\ \E failing \in SUBSET {"Extracted data", "Database schema", "Database connection",
                              "Import scripts", "Test scripts"} :
          LET all_passed ==
                  /\ failing = {}
                  /\ \A name \in DOMAIN Artifacts(disk) : Artifacts(disk)[name] # Absent
          IN /\ steps' = Append(steps, [step |-> "dry_run",
                                        outcome |-> IF all_passed THEN "ok" ELSE "fail"])
             /\ returned' = IF all_passed THEN IntV(0) ELSE IntV(1)
    /\ pc' = "returned"
    /\ UNCHANGED <<args, fn, phaseResults, exitCode, disk, cleanVars, extractVars, pcAll, results,
                   exitStatus, toolVars>>

\* main: sys.exit(exit_code)
Exit ==
    /\ pc = "returned"
    /\ exitCode' = IntV(ExitStatusOf(returned))
    /\ pc' = "exited"
    /\ UNCHANGED <<args, fn, phaseResults, steps, returned, disk, cleanVars, extractVars, pcAll,
                   results,
                   exitStatus, toolVars>>

NextPipeline ==
    \/ Run \/ RunPhase0 \/ RunPhase05 \/ RunPhase06 \/ CheckpointExtractedData
    \/ RunPhase1 \/ CheckpointSchema \/ RunPhase2 \/ CheckpointImport \/ RunPhase3
    \/ RunDryRun \/ Exit

SpecPipeline == InitPipeline /\ [][NextPipeline]_vars

----------------------------------------------------------------------------
(* Claims about run_pipeline.py (SpecPipeline) *)

\* the step is one of the three a --skip-* flag of the run disables
Disabled(step) ==
    \/ step = "phase_0" /\ args.skip_analysis
    \/ step = "phase_0_5" /\ args.skip_cleaning
    \/ step = "phase_0_6" /\ args.skip_extraction

\* the phase names each step records its results under
PhaseNames(step) ==
    CASE step = "phase_0" -> {"Phase 0: Analysis"}
      [] step = "phase_0_5" -> {"Phase 0.5: Cleaning"}
      [] step = "phase_0_6" -> {"Phase 0.6: Extraction"}
      [] step = "checkpoint_extracted_data" -> {}
      [] step = "phase_1" -> {"Drop & Create Database", "Create Schema", "Import Controlled Vocab"}
      [] step = "checkpoint_schema" -> {"Count Tables", "Count Indexes"}
      [] step = "phase_2" -> {"Phase 2: Import Items", "Phase 2: Import Monsters",
                              "Phase 2: Import Spells", "Phase 2: Import Relationships"}
      [] step = "checkpoint_import" -> {"Import Validation"}
      [] step = "phase_3" -> {"Phase 3: Validation", "Phase 3: Testing"}

StepOf(phase) == CHOOSE i \in 1..Len(FullOrder) : phase \in PhaseNames(FullOrder[i])

\* control has gone past the step
Past(step) ==
    /\ pc # "run"
    /\ pc \in {FullOrder[i] : i \in 1..Len(FullOrder)} => IndexOf(pc) > IndexOf(step)
    /\ LET before == {i \in 1..(IndexOf(step) - 1) : ~Disabled(FullOrder[i])}
       IN /\ Len(steps) >= Cardinality(before)
          /\ \A i \in 1..Cardinality(before) : steps[i].outcome = "ok"

\* C1: when the validation of a cleaning phase finds a polymorphic field path
\* (all_valid is false), clean_all records the validation as failed, the
\* orchestrator records the cleaning phase as FAILED, and no later step starts.
ValidationFailureStops ==
    /\ \E i \in 1..Len(steps) : steps[i].step = "phase_0_5"
    /\ disk.validationReport # Absent
    /\ ~disk.validationReport.summary.all_valid
    => /\ \E i \in 1..Len(disk.cleaningReport.operations) :
             /\ disk.cleaningReport.operations[i].description = "Data Validation"
             /\ ~disk.cleaningReport.operations[i].success
       /\ \E i \in 1..Len(phaseResults) :
             phaseResults[i] = [phase |-> "Phase 0.5: Cleaning", status |-> "failed"]
       /\ steps[Len(steps)].step = "phase_0_5"

\* C2: in full mode, dry-run mode and resume mode from phase 0, 1, 2 or 3 the
\* process exits with 0 when every step of the run succeeded and with 1 when
\* one failed.
ExitCodeContract ==
    pc = "exited" /\ (args.mode = "resume" => args.from_phase.v \in 0..3) =>
        IF \A i \in 1..Len(steps) : steps[i].outcome = "ok"
        THEN exitCode = IntV(0)
        ELSE exitCode = IntV(1)

\* C3: in full mode the steps that are not disabled start in the fixed order,
\* a disabled phase is recorded as SKIPPED in its place, a step starts only
\* after every earlier step ended well, no command runs after the first
\* FAILED one, and the run returns 1 when a step failed and 0 when all ended
\* well.
FullModeOrder ==
    args # Null /\ args.mode = "full" =>
        LET enabled == SelectSeq(FullOrder, LAMBDA step : ~Disabled(step))
            last == Len(steps)
        IN /\ last <= Len(enabled)
           /\ \A i \in 1..last : steps[i].step = enabled[i]
           /\ \A i \in 1..(last - 1) : steps[i].outcome = "ok"
           /\ \A i \in 1..(Len(phaseResults) - 1) : phaseResults[i].status # "failed"
           /\ \A i \in 1..Len(phaseResults) :
                 /\ phaseResults[i].status = "failed" => steps[last].outcome = "fail"
                 /\ phaseResults[i].status = "skipped" <=> Disabled(FullOrder[StepOf(phaseResults[i].phase)])
                 /\ phaseResults[i].status # "skipped" =>
                       \E j \in 1..last : steps[j].step = FullOrder[StepOf(phaseResults[i].phase)]
                 /\ \A j \in 1..(i - 1) :
                       StepOf(phaseResults[j].phase) <= StepOf(phaseResults[i].phase)
           /\ \A i \in 1..3 :
                 Disabled(FullOrder[i]) =>
                    (Past(FullOrder[i])
                       <=> Cardinality({j \in 1..Len(phaseResults) :
                              phaseResults[j] = [phase |-> CHOOSE n \in PhaseNames(FullOrder[i]) : TRUE,
                                                 status |-> "skipped"]}) = 1)
           /\ pc \in {FullOrder[i] : i \in 1..Len(FullOrder)} =>
                 /\ ~Disabled(pc) => last < Len(enabled) /\ enabled[last + 1] = pc
                 /\ \A i \in 1..last : steps[i].outcome = "ok"
           /\ returned # NotRun =>
                 returned = IF last = Len(enabled) /\ \A i \in 1..last : steps[i].outcome = "ok"
                            THEN IntV(0) ELSE IntV(1)
           /\ exitCode # NotRun => exitCode = returned

FullModeWitness ==
    /\ args # Null /\ args.mode = "full" /\ args.skip_analysis /\ ~args.skip_extraction
    /\ pc = "exited"
    /\ Len(steps) = 5
    /\ steps[5] = [step |-> "checkpoint_schema", outcome |-> "fail"]
    /\ phaseResults[1] = [phase |-> "Phase 0: Analysis", status |-> "skipped"]
    /\ exitCode = IntV(1)

----------------------------------------------------------------------------
(* extract_names.py *)

\* the characters str.strip() and the pattern \s take for whitespace
IsSpace(c) == c \in {" "}

\* str.isdigit() of one character: the decimal digits, and digit characters
\* that are no decimal digits, such as the superscript two (written "^2" here,
\* one character of the name)
IsDigitChar(c) == c \in Digits \cup {"^2"}

\* s.isdigit()
IsDigit(s) == s # <<>> /\ \A i \in 1..Len(s) : IsDigitChar(s[i])

\* s.strip()
RECURSIVE Strip(_)
Strip(s) ==
    IF s = <<>> THEN s
    ELSE IF IsSpace(s[1]) THEN Strip(Tail(s))
    ELSE IF IsSpace(s[Len(s)]) THEN Strip(SubSeq(s, 1, Len(s) - 1))
    ELSE s

\* c.lower(), over the letters of the names enumerated
LowerChar(c) ==
    CASE c = "A" -> "a" [] c = "B" -> "b" [] c = "G" -> "g" [] c = "P" -> "p"
      [] OTHER -> c

\* s.lower()
Lower(s) == [i \in 1..Len(s) |-> LowerChar(s[i])]

\* the first position of s from position from on that holds c, 0 if none
FirstAt(s, c, from) ==
    IF \E j \in from..Len(s) : s[j] = c
    THEN CHOOSE j \in from..Len(s) : s[j] = c /\ \A k \in from..(j - 1) : s[k] # c
    ELSE 0

\* re.sub(r'\{@[^}]+\}', '', text): every tag is taken out, from the left
RECURSIVE SubTags(_)
SubTags(text) ==
    IF text = <<>> THEN <<>>
    ELSE IF /\ Len(text) >= 4 /\ text[1] = "{" /\ text[2] = "@" /\ text[3] # "}"
            /\ FirstAt(text, "}", 4) # 0
    THEN SubTags(SubSeq(text, FirstAt(text, "}", 4) + 1, Len(text)))
    ELSE <<Head(text)>> \o SubTags(Tail(text))

strip_markup(text) == Strip(SubTags(text))

\* the number of decimal digits (or, else, of whitespace characters) s starts with
RECURSIVE Run_of(_, _)
Run_of(s, digits) ==
    IF s # <<>> /\ (IF digits THEN s[1] \in Digits ELSE IsSpace(s[1]))
    THEN 1 + Run_of(Tail(s), digits) ELSE 0

\* re.match(r'^(\+\d+)\s+(.+)$', clean_name): the two groups, or no match
\* (clean_name is stripped, so that what follows the whitespace is not empty)
LeadingBonus(clean_name) ==
    LET digits == IF clean_name # <<>> /\ clean_name[1] = "+"
                  THEN Run_of(Tail(clean_name), TRUE) ELSE 0
        spaces == Run_of(SubSeq(clean_name, digits + 2, Len(clean_name)), FALSE)
    IN IF digits >= 1 /\ spaces >= 1 /\ digits + 1 + spaces < Len(clean_name)
       THEN [matched |-> TRUE, bonus |-> SubSeq(clean_name, 1, digits + 1),
             rest |-> SubSeq(clean_name, digits + spaces + 2, Len(clean_name))]
       ELSE [matched |-> FALSE, bonus |-> <<>>, rest |-> clean_name]

\* re.match(r'^(.+?)\s*\((.+?)\)$', clean_name): the first group is the
\* shortest head that whitespace and '(' follow, the second what lies between
\* that '(' and the ')' that ends the name
ParenMatch(clean_name) ==
    LET n == Len(clean_name)
        opens(i) == i + Run_of(SubSeq(clean_name, i + 1, n), FALSE) + 1
        heads == {i \in 1..n : opens(i) < n - 1 /\ clean_name[opens(i)] = "("}
    IN IF n >= 4 /\ clean_name[n] = ")" /\ heads # {}
       THEN LET i == CHOOSE h \in heads : \A g \in heads : h <= g
            IN [matched |-> TRUE, base |-> SubSeq(clean_name, 1, i),
                in_parens |-> SubSeq(clean_name, opens(i) + 1, n - 1)]
       ELSE [matched |-> FALSE, base |-> clean_name, in_parens |-> <<>>]

\* re.match(r'^\+\d+$', in_parens)
IsBonus(in_parens) ==
    /\ Len(in_parens) >= 2 /\ in_parens[1] = "+"
    /\ \A i \in 2..Len(in_parens) : in_parens[i] \in Digits

containers ==
    {<<"v", "i", "a", "l">>, <<"f", "l", "a", "s", "k">>, <<"b", "o", "t", "t", "l", "e">>,
     <<"p", "o", "u", "c", "h">>, <<"b", "a", "g">>, <<"j", "a", "r">>, <<"j", "u", "g">>}

\* the five components
NameParts(base_name, variant_name, container_type, default_quantity, bonus_display) ==
    Dict([k \in {"base_name", "variant_name", "container_type", "default_quantity",
                 "bonus_display"} |->
            CASE k = "base_name" -> base_name
              [] k = "variant_name" -> variant_name
              [] k = "container_type" -> container_type
              [] k = "default_quantity" -> default_quantity
              [] k = "bonus_display" -> bonus_display])

\* parse_item_name(name) for a str name: the dict returned, or the exception
parse_item_name(name) ==
    LET leading_bonus_match == LeadingBonus(strip_markup(name.s))
        bonus_display == IF leading_bonus_match.matched
                         THEN Str(leading_bonus_match.bonus) ELSE Null
        clean_name == leading_bonus_match.rest
        paren_match == ParenMatch(clean_name)
        base == Str(Strip(paren_match.base))
        in_parens == Strip(paren_match.in_parens)
    IN IF ~paren_match.matched THEN NameParts(Str(clean_name), Null, Null, Null, bonus_display)
       ELSE IF IsDigit(in_parens) THEN
            IF IsRaise(PyIntOfStr(in_parens)) THEN PyIntOfStr(in_parens)
            ELSE NameParts(base, Null, Null, PyIntOfStr(in_parens), bonus_display)
       ELSE IF IsBonus(in_parens) THEN NameParts(base, Null, Null, Null, Str(in_parens))
       ELSE IF Lower(in_parens) \in containers
       THEN NameParts(base, Null, Str(Lower(in_parens)), Null, bonus_display)
       ELSE NameParts(base, Str(in_parens), Null, Null, bonus_display)

\* parse_monster_name(name) for a str name: the dict returned
parse_monster_name(name) ==
    LET clean_name == strip_markup(name.s)
        paren_match == ParenMatch(clean_name)
    IN Dict("base_name" :> (IF paren_match.matched THEN Str(Strip(paren_match.base))
                            ELSE Str(clean_name))
            @@ "variant_name" :> (IF paren_match.matched THEN Str(Strip(paren_match.in_parens))
                                  ELSE Null)
            @@ "variant_notes" :> Null)

\* extract_monster_names, for the one monster {"name": name}: the monster with
\* its display name cleaned and the components of its name
extract_monster_names(name) ==
    Dict("name" :> Str(strip_markup(name.s))
         @@ "base_name" :> parse_monster_name(name).d["base_name"]
         @@ "variant_name" :> parse_monster_name(name).d["variant_name"]
         @@ "variant_notes" :> parse_monster_name(name).d["variant_notes"])

----------------------------------------------------------------------------
(* extract_conditions.py: the text around a tag *)

UpperCase ==
    <<"A", "B", "C", "D", "E", "F", "G", "H", "I", "J", "K", "L", "M", "N", "O", "P", "Q", "R",
      "S", "T", "U", "V", "W", "X", "Y", "Z">>
LowerCase ==
    <<"a", "b", "c", "d", "e", "f", "g", "h", "i", "j", "k", "l", "m", "n", "o", "p", "q", "r",
      "s", "t", "u", "v", "w", "x", "y", "z">>

\* c.lower()
ToLower(c) ==
    IF \E i \in 1..Len(UpperCase) : UpperCase[i] = c
    THEN LowerCase[CHOOSE i \in 1..Len(UpperCase) : UpperCase[i] = c]
    ELSE c

\* text.lower()
LowerText(text) == [i \in 1..Len(text) |-> ToLower(text[i])]

\* the pattern \w
IsWord(c) ==
    \/ \E i \in 1..Len(UpperCase) : c \in {UpperCase[i], LowerCase[i]}
    \/ c \in Digits \cup {"_"}

\* text[from:to], positions counted from 0 as Python does
Slice(text, from, to) == SubSeq(text, from + 1, to)

\* text[pos:].startswith(word)
StartsAt(text, pos, word) ==
    /\ pos + Len(word) <= Len(text)
    /\ \A i \in 1..Len(word) : text[pos + i] = word[i]

\* text[pos:].lower().startswith(word), for a word in lower case
StartsAtFold(text, pos, word) ==
    /\ pos + Len(word) <= Len(text)
    /\ \A i \in 1..Len(word) : ToLower(text[pos + i]) = word[i]

\* word in text[from:to].lower(), for a word in lower case
OccursFold(word, text, from, to) ==
    \E pos \in from..(to - Len(word)) : StartsAtFold(text, pos, word)

\* the one element of a set of one element
Only(S) == CHOOSE x \in S : TRUE

\* the smallest element of a non-empty set of numbers
Least(S) == CHOOSE x \in S : \A y \in S : x <= y

\* the pattern \b at pos
Boundary(text, pos) ==
    (pos > 0 /\ IsWord(text[pos])) # (pos < Len(text) /\ IsWord(text[pos + 1]))

\* the number of characters of text from pos on that are in the set
RECURSIVE RunIn(_, _, _)
RunIn(text, pos, set) ==
    IF pos < Len(text) /\ text[pos + 1] \in set THEN 1 + RunIn(text, pos + 1, set) ELSE 0

\* the number of characters of text from pos on that are not in the set
RECURSIVE RunNotIn(_, _, _)
RunNotIn(text, pos, set) ==
    IF pos < Len(text) /\ text[pos + 1] \notin set THEN 1 + RunNotIn(text, pos + 1, set) ELSE 0

\* re.search(r'\{@dc (\d+)\}', text), re.search(r'\bDC (\d+)\b', text)
extract_dc(text) ==
    LET tagged == {pos \in 0..Len(text) :
                     /\ StartsAt(text, pos, <<"{", "@", "d", "c", " ">>)
                     /\ RunIn(text, pos + 5, Digits) >= 1
                     /\ StartsAt(text, pos + 5 + RunIn(text, pos + 5, Digits), <<"}">>)}
        plain == {pos \in 0..Len(text) :
                     /\ Boundary(text, pos)
                     /\ StartsAt(text, pos, <<"D", "C", " ">>)
                     /\ RunIn(text, pos + 3, Digits) >= 1
                     /\ Boundary(text, pos + 3 + RunIn(text, pos + 3, Digits))}
    IN IF tagged # {}
       THEN IntV(DigitsVal(Slice(text, Least(tagged) + 5,
                                 Least(tagged) + 5 + RunIn(text, Least(tagged) + 5, Digits))))
       ELSE IF plain # {}
       THEN IntV(DigitsVal(Slice(text, Least(plain) + 3,
                                 Least(plain) + 3 + RunIn(text, Least(plain) + 3, Digits))))
       ELSE Null

abilities ==
    <<<<"S", "t", "r", "e", "n", "g", "t", "h">>, <<"D", "e", "x", "t", "e", "r", "i", "t",
                                                    "y">>, <<"C", "o", "n", "s", "t", "i", "t",
                                                             "u", "t", "i", "o", "n">>,
      <<"I", "n", "t", "e", "l", "l", "i", "g", "e", "n", "c", "e">>, <<"W", "i", "s", "d", "o",
                                                                        "m">>, <<"C", "h", "a",
                                                                                 "r", "i", "s", "m", "a">>>>

\* re.search(rf'\b{ability}\s+sav(?:ing throw|e)\b', text, re.IGNORECASE)
SaveMatches(ability, text) ==
    \E pos \in 0..Len(text) :
        /\ Boundary(text, pos)
        /\ StartsAtFold(text, pos, LowerText(ability))
        /\ LET spaces == RunIn(text, pos + Len(ability), {" "})
               sav == pos + Len(ability) + spaces
           IN /\ spaces >= 1
              /\ \/ /\ StartsAtFold(text, sav, <<"s", "a", "v", "i", "n", "g", " ", "t", "h",
                                                 "r", "o", "w">>)
                    /\ Boundary(text, sav + 12)
                 \/ /\ StartsAtFold(text, sav, <<"s", "a", "v", "e">>)
                    /\ Boundary(text, sav + 4)

\* the first ability of the list the text names a save of
extract_save_ability(text) ==
    LET found == {i \in 1..Len(abilities) : SaveMatches(abilities[i], text)}
    IN IF found = {} THEN Null ELSE Str(abilities[Least(found)])

units ==
    <<<<"r", "o", "u", "n", "d">>, <<"m", "i", "n", "u", "t", "e">>, <<"h", "o", "u", "r">>,
                                                                       <<"d", "a", "y">>>>

\* the end of the match of r'for (\d+\s+(?:round|minute|hour|day)s?)' at pos, or 0
ForMatchEnd(text, pos) ==
    LET digits == RunIn(text, pos + 4, Digits)
        spaces == RunIn(text, pos + 4 + digits, {" "})
        unit == pos + 4 + digits + spaces
        named == {i \in 1..Len(units) : StartsAt(text, unit, units[i])}
    IN IF StartsAt(text, pos, <<"f", "o", "r", " ">>) /\ digits >= 1 /\ spaces >= 1 /\ named # {}
       THEN LET end == unit + Len(units[Least(named)])
            IN IF StartsAt(text, end, <<"s">>) THEN end + 1 ELSE end
       ELSE 0

\* re.search(r'for (...)', text), then re.search(r'until ([^.;,]+?)(?:[.;,]|$)', text)
extract_duration(text) ==
    LET timed == {pos \in 0..Len(text) : ForMatchEnd(text, pos) # 0}
        until == {pos \in 0..Len(text) :
                    /\ StartsAt(text, pos, <<"u", "n", "t", "i", "l", " ">>)
                    /\ RunNotIn(text, pos + 6, {".", ";", ","}) >= 1}
    IN IF timed # {} THEN Str(Slice(text, Least(timed) + 4, ForMatchEnd(text, Least(timed))))
       ELSE IF until # {}
       THEN LET duration == Strip(Slice(text, Least(until) + 6,
                                        Least(until) + 6
                                        + RunNotIn(text, Least(until) + 6, {".", ";", ","})))
            IN IF Len(duration) < 80 THEN Str(duration) ELSE Null
       ELSE Null

\* the length of the stretch before a tag that is_immunity_or_resistance reads
BeforeWindow == 100

immunity_keywords ==
    <<<<"i", "m", "m", "u", "n", "e", " ", "t", "o">>, <<"i", "m", "m", "u", "n", "i", "t", "y",
                                                         " ", "t", "o">>,
      <<"c", "a", "n", "'", "t", " ", "b", "e">>, <<"c", "a", "n", "n", "o", "t", " ", "b", "e">>,
      <<"a", "d", "v", "a", "n", "t", "a", "g", "e", " ", "o", "n", " ", "s", "a", "v", "i", "n",
        "g", " ", "t", "h", "r", "o", "w", "s", " ", "a", "g", "a", "i", "n", "s", "t">>,
      <<"a", "d", "v", "a", "n", "t", "a", "g", "e", " ", "o", "n", " ", "s", "a", "v", "e", "s",
        " ", "a", "g", "a", "i", "n", "s", "t">>>>

\* a variant that reads all the text before the tag
is_immunity_or_resistance_unbounded(text, condition_pos) ==
    \E i \in 1..Len(immunity_keywords) :
        OccursFold(immunity_keywords[i], text, 0, condition_pos)

\* keyword in text[max(0, condition_pos - 100):condition_pos].lower()
is_immunity_or_resistance(text, condition_pos) ==
    \E i \in 1..Len(immunity_keywords) :
        OccursFold(immunity_keywords[i], text,
                   IF condition_pos - BeforeWindow > 0 THEN condition_pos - BeforeWindow ELSE 0,
                   condition_pos)

----------------------------------------------------------------------------
(* extract_conditions.py: the condition tags of a text *)

\* the match of r'\{@condition ([^}|]+)(?:\|([^}]+))?\}' that starts at pos:
\* its end and its two groups, or end = 0 when there is none
TagAt(text, pos) ==
    LET name == RunNotIn(text, pos + 12, {"}", "|"})
        after == pos + 12 + name
        source == RunNotIn(text, after + 1, {"}"})
        none == [start |-> pos, end |-> 0, name |-> <<>>, source |-> Null]
    IN IF ~StartsAt(text, pos, <<"{", "@", "c", "o", "n", "d", "i", "t", "i", "o", "n",
                                 " ">>) \/ name = 0 THEN none
       ELSE IF StartsAt(text, after, <<"}">>)
       THEN [start |-> pos, end |-> after + 1,
             name |-> Slice(text, pos + 12, after), source |-> Null]
       ELSE IF /\ StartsAt(text, after, <<"|">>) /\ source >= 1
               /\ StartsAt(text, after + 1 + source, <<"}">>)
       THEN [start |-> pos, end |-> after + 2 + source,
             name |-> Slice(text, pos + 12, after),
             source |-> Str(Slice(text, after + 1, after + 1 + source))]
       ELSE none

\* re.finditer(pattern, text): the matches from pos on, none overlapping
RECURSIVE FindTags(_, _)
FindTags(text, pos) ==
    LET starts == {p \in pos..Len(text) : TagAt(text, p).end # 0}
    IN IF starts = {} THEN <<>>
       ELSE <<TagAt(text, Least(starts))>> \o FindTags(text, TagAt(text, Least(starts)).end)

\* the window around a tag that the DC, the save and the duration are read from
ContextWindow == 200

\* one reference of extract_conditions_from_text, given the text around the tag
ReferenceIn(text, match, context_text) ==
    Dict([k \in {"condition", "condition_source", "inflicts", "save_dc", "save_ability",
                 "duration_text", "full_text"} |->
         CASE k = "condition" -> Str(LowerText(Strip(match.name)))
           [] k = "condition_source" ->
                 IF match.source = Null THEN Null ELSE Str(Strip(match.source.s))
           [] k = "inflicts" -> Bool(~is_immunity_or_resistance(text, match.start))
           [] k = "save_dc" -> extract_dc(context_text)
           [] k = "save_ability" -> extract_save_ability(context_text)
           [] k = "duration_text" -> extract_duration(context_text)
           [] k = "full_text" -> Str(text)])

\* context_text = text[max(0, start - 200):min(len(text), end + 200)]
Reference(text, match) ==
    LET context_start == IF match.start - ContextWindow > 0
                         THEN match.start - ContextWindow ELSE 0
        context_end == IF Len(text) < match.end + ContextWindow
                       THEN Len(text) ELSE match.end + ContextWindow
    IN Only({ReferenceIn(text, match, context_text) :
                context_text \in {Slice(text, context_start, context_end)}})

\* extract_conditions_from_text(text): the list of references
extract_conditions_from_text(text) ==
    IF text.t # "str" THEN List(<<>>)
    ELSE LET matches == FindTags(text.s, 0)
         IN List([i \in 1..Len(matches) |-> Reference(text.s, matches[i])])

----------------------------------------------------------------------------
(* extract_conditions.py: the references of items, monsters and spells *)

\* the default of item.get('name', 'Unknown')
Unknown == Str(<<"U", "n", "k", "n", "o", "w", "n">>)

\* extract_from_entries(entries): the texts of an entries value
RECURSIVE extract_from_entries(_)
RECURSIVE TextsOfEntries(_)
TextsOfEntries(xs) ==
    IF xs = <<>> THEN <<>>
    ELSE LET entry == Head(xs)
             own == IF entry.t = "str" THEN <<entry>>
                    ELSE IF entry.t = "dict"
                    THEN (IF Has(entry, "entries")
                          THEN extract_from_entries(entry.d["entries"]) ELSE <<>>)
                         \o (IF Has(entry, "items")
                             THEN extract_from_entries(entry.d["items"]) ELSE <<>>)
                    ELSE <<>>
         IN own \o TextsOfEntries(Tail(xs))
extract_from_entries(entries) ==
    IF entries.t = "str" THEN <<entries>>
    ELSE IF entries.t = "list" THEN TextsOfEntries(entries.items)
    ELSE <<>>

\* {owner_key: name, 'source': source, 'context': .., 'context_name': .., **cond}
ConditionFact(owner_key, name, source, context, context_name, cond) ==
    Dict([k \in DOMAIN cond.d \cup {owner_key, "source", "context", "context_name"} |->
            IF k \in DOMAIN cond.d THEN cond.d[k]
            ELSE IF k = owner_key THEN name
            ELSE IF k = "source" THEN source
            ELSE IF k = "context" THEN context
            ELSE context_name])

\* for text in texts: for cond in extract_conditions_from_text(text): results.append(..)
FactsOfTexts(texts, owner_key, name, source, context, context_name) ==
    Concat([i \in 1..Len(texts) |->
        LET conditions == extract_conditions_from_text(texts[i]).items
        IN [j \in 1..Len(conditions) |->
               ConditionFact(owner_key, name, source, context, context_name, conditions[j])]])

\* the results after the outcomes of the loop's rounds, in order: the first
\* exception, or all the facts
RECURSIVE Gather(_)
Gather(outcomes) ==
    IF outcomes = <<>> THEN List(<<>>)
    ELSE IF IsRaise(Head(outcomes)) THEN Head(outcomes)
    ELSE LET rest == Gather(Tail(outcomes))
         IN IF IsRaise(rest) THEN rest ELSE List(Head(outcomes).items \o rest.items)

\* the body of the loop of extract_item_conditions / extract_spell_conditions
EntityOutcome(entity, owner_key) ==
    IF entity.t # "dict" THEN Raise("AttributeError")
    ELSE IF Has(entity, "entries")
    THEN List(FactsOfTexts(extract_from_entries(entity.d["entries"]), owner_key,
                           GetOr(entity, "name", Unknown), GetOr(entity, "source", Unknown),
                           Str(<<"e", "n", "t", "r", "i", "e", "s">>), Null))
    ELSE List(<<>>)

extract_item_conditions(items) ==
    Gather([i \in 1..Len(items) |-> EntityOutcome(items[i], "item_name")])

extract_spell_conditions(spells) ==
    Gather([i \in 1..Len(spells) |-> EntityOutcome(spells[i], "spell_name")])

fields_to_check ==
    <<[field_name |-> "trait", context_type |-> Str(<<"t", "r", "a", "i", "t">>)],
      [field_name |-> "action", context_type |-> Str(<<"a", "c", "t", "i", "o", "n">>)],
      [field_name |-> "bonus", context_type |-> Str(<<"b", "o", "n", "u", "s", " ", "a", "c",
                                                      "t", "i", "o", "n">>)],
      [field_name |-> "reaction", context_type |-> Str(<<"r", "e", "a", "c", "t", "i", "o", "n">>)],
      [field_name |-> "legendary", context_type |-> Str(<<"l", "e", "g", "e", "n", "d", "a", "r",
                                                          "y", " ", "a", "c", "t", "i", "o", "n">>)]>>

\* for ability in monster[field_name]: the elements the loop goes through, or
\* the TypeError of a value that cannot be iterated
Iterated(section) ==
    CASE section.t = "list" -> section
      [] section.t = "str" -> List([i \in 1..Len(section.s) |-> Str(<<section.s[i]>>)])
      [] section.t = "dict" ->
            List([i \in 1..Cardinality(DOMAIN section.d) |-> Str(<<"k">>)])
      [] OTHER -> Raise("TypeError")

\* the body of the loop over the abilities of one section
AbilityOutcome(monster, check, ability) ==
    IF ability.t # "dict" THEN Raise("AttributeError")
    ELSE IF Has(ability, "entries")
    THEN List(FactsOfTexts(extract_from_entries(ability.d["entries"]), "monster_name",
                           GetOr(monster, "name", Unknown), GetOr(monster, "source", Unknown),
                           check.context_type, GetOr(ability, "name", Unknown)))
    ELSE List(<<>>)

\* the body of the loop over fields_to_check
SectionOutcome(monster, check) ==
    IF ~Has(monster, check.field_name) THEN List(<<>>)
    ELSE LET abilities_of == Iterated(monster.d[check.field_name])
         IN IF IsRaise(abilities_of) THEN abilities_of
            ELSE Gather([i \in 1..Len(abilities_of.items) |->
                           AbilityOutcome(monster, check, abilities_of.items[i])])

\* the body of the loop over the monsters
MonsterOutcome(monster) ==
    IF monster.t # "dict" THEN Raise("AttributeError")
    ELSE Gather([i \in 1..Len(fields_to_check) |-> SectionOutcome(monster, fields_to_check[i])])

extract_monster_conditions(monsters) ==
    Gather([i \in 1..Len(monsters) |-> MonsterOutcome(monsters[i])])

----------------------------------------------------------------------------
(* extract_damage.py: the attacks of monsters *)

\* ATTACK_TYPES.get(attack_type_code, attack_type_code)
ATTACK_TYPES(attack_type_code) ==
    CASE attack_type_code = <<"m", "w">> -> <<"m", "e", "l", "e", "e", " ", "w", "e", "a", "p",
                                              "o", "n">>
      [] attack_type_code = <<"r", "w">> -> <<"r", "a", "n", "g", "e", "d", " ", "w", "e", "a",
                                              "p", "o", "n">>
      [] attack_type_code = <<"m", "s">> -> <<"m", "e", "l", "e", "e", " ", "s", "p", "e", "l",
                                              "l">>
      [] attack_type_code = <<"r", "s">> -> <<"r", "a", "n", "g", "e", "d", " ", "s", "p", "e",
                                              "l", "l">>
      [] attack_type_code = <<"m", "w", ",", "r", "w">> -> <<"m", "e", "l", "e", "e", " ", "o",
                                                             "r", " ", "r", "a", "n", "g", "e", "d", " ", "w", "e", "a", "p", "o", "n">>
      [] attack_type_code = <<"m", "s", ",", "r", "s">> -> <<"m", "e", "l", "e", "e", " ", "o",
                                                             "r", " ", "r", "a", "n", "g", "e", "d", " ", "s", "p", "e", "l", "l">>
      [] OTHER -> attack_type_code

DAMAGE_TYPES ==
    <<<<"b", "l", "u", "d", "g", "e", "o", "n", "i", "n", "g">>, <<"p", "i", "e", "r", "c", "i",
                                                                   "n", "g">>, <<"s", "l", "a",
                                                                                 "s", "h", "i", "n", "g">>,
      <<"f", "i", "r", "e">>, <<"c", "o", "l", "d">>, <<"l", "i", "g", "h", "t", "n", "i", "n",
                                                        "g">>, <<"t", "h", "u", "n", "d", "e",
                                                                 "r">>, <<"a", "c", "i", "d">>,
                                                                          <<"p", "o", "i", "s",
                                                                            "o", "n">>,
      <<"n", "e", "c", "r", "o", "t", "i", "c">>, <<"r", "a", "d", "i", "a", "n", "t">>, <<"p",
                                                                                           "s", "y", "c", "h", "i", "c">>, <<"f", "o", "r", "c", "e">>>>

\* re.match(r'(\d+d\d+)(?:\s*\+\s*(\d+))?', expr), then re.match(r'(\d+)', expr):
\* the pair (dice, bonus)
parse_damage_expression(expr) ==
    LET stripped == Strip(expr)
        count == RunIn(stripped, 0, Digits)
        faces == RunIn(stripped, count + 1, Digits)
        dice_end == count + 1 + faces
        plus == dice_end + RunIn(stripped, dice_end, {" "})
        number == plus + 1 + RunIn(stripped, plus + 1, {" "})
        digits == RunIn(stripped, number, Digits)
    IN IF count >= 1 /\ StartsAt(stripped, count, <<"d">>) /\ faces >= 1
       THEN [dice |-> Str(Slice(stripped, 0, dice_end)),
             bonus |-> IF StartsAt(stripped, plus, <<"+">>) /\ digits >= 1
                       THEN IntV(DigitsVal(Slice(stripped, number, number + digits)))
                       ELSE IntV(0)]
       ELSE IF count >= 1
       THEN [dice |-> Null, bonus |-> IntV(DigitsVal(Slice(stripped, 0, count)))]
       ELSE [dice |-> Null, bonus |-> IntV(0)]

\* the first damage type named in text[damage_pos:damage_pos + 50].lower()
extract_damage_type_from_text(text, damage_pos) ==
    LET named == {i \in 1..Len(DAMAGE_TYPES) :
                    OccursFold(DAMAGE_TYPES[i], text, damage_pos,
                               IF damage_pos + 50 < Len(text) THEN damage_pos + 50
                               ELSE Len(text))}
    IN IF named = {} THEN Null ELSE Str(DAMAGE_TYPES[Least(named)])

\* the number that follows the word at pos, before the closing word; 0 digits
\* when the pattern does not match there
NumberRun(text, pos, word, closing) ==
    LET digits == RunIn(text, pos + Len(word), Digits)
    IN IF /\ StartsAt(text, pos, word) /\ digits >= 1
          /\ StartsAt(text, pos + Len(word) + digits, closing)
       THEN digits ELSE 0
NumberAt(text, pos, digits) == IntV(DigitsVal(Slice(text, pos, pos + digits)))

\* re.search of 'reach (\d+) ft', 'range (\d+)/(\d+) ft', 'range (\d+) ft':
\* the pair (reach or normal range, long range)
extract_reach_or_range(text) ==
    LET reaches == {p \in 0..Len(text) : NumberRun(text, p, <<"r", "e", "a", "c", "h", " ">>,
                                                              <<" ", "f", "t">>) > 0}
        pairs == {p \in 0..Len(text) :
                    /\ NumberRun(text, p, <<"r", "a", "n", "g", "e", " ">>, <<"/">>) > 0
                    /\ NumberRun(text, p + 6 + NumberRun(text, p, <<"r", "a", "n", "g", "e",
                                                                    " ">>, <<"/">>),
                                 <<"/">>, <<" ", "f", "t">>) > 0}
        ranges == {p \in 0..Len(text) : NumberRun(text, p, <<"r", "a", "n", "g", "e", " ">>,
                                                             <<" ", "f", "t">>) > 0}
    IN IF reaches # {}
       THEN [reach |-> NumberAt(text, Least(reaches) + 6,
                                NumberRun(text, Least(reaches), <<"r", "e", "a", "c", "h", " ">>,
                                                                  <<" ", "f", "t">>)),
             range_long |-> Null]
       ELSE IF pairs # {}
       THEN LET first == NumberRun(text, Least(pairs), <<"r", "a", "n", "g", "e", " ">>, <<"/">>)
                slash == Least(pairs) + 6 + first
            IN [reach |-> NumberAt(text, Least(pairs) + 6, first),
                range_long |-> NumberAt(text, slash + 1,
                                        NumberRun(text, slash, <<"/">>, <<" ", "f", "t">>))]
       ELSE IF ranges # {}
       THEN [reach |-> NumberAt(text, Least(ranges) + 6,
                                NumberRun(text, Least(ranges), <<"r", "a", "n", "g", "e", " ">>,
                                                                 <<" ", "f", "t">>)),
             range_long |-> Null]
       ELSE [reach |-> Null, range_long |-> Null]

\* the match of '\{@word ([^}]+)\}' that starts at pos: its end and its group,
\* or end = 0 when there is none
MarkAt(text, pos, opener) ==
    LET body == RunNotIn(text, pos + Len(opener), {"}"})
    IN IF /\ StartsAt(text, pos, opener) /\ body >= 1
          /\ StartsAt(text, pos + Len(opener) + body, <<"}">>)
       THEN [start |-> pos, end |-> pos + Len(opener) + body + 1,
             group |-> Slice(text, pos + Len(opener), pos + Len(opener) + body)]
       ELSE [start |-> pos, end |-> 0, group |-> <<>>]

\* re.finditer('\{@word ([^}]+)\}', text) from pos on
RECURSIVE FindMarks(_, _, _)
FindMarks(text, pos, opener) ==
    LET starts == {p \in pos..Len(text) : MarkAt(text, p, opener).end # 0}
    IN IF starts = {} THEN <<>>
       ELSE <<MarkAt(text, Least(starts), opener)>>
            \o FindMarks(text, MarkAt(text, Least(starts), opener).end, opener)

\* group.lstrip('+')
RECURSIVE LStripPlus(_)
LStripPlus(s) == IF s # <<>> /\ Head(s) = "+" THEN LStripPlus(Tail(s)) ELSE s

\* to_hit: int(hit_match.group(1).lstrip('+')), None on ValueError or no match
ToHit(text) ==
    LET hits == FindMarks(text, 0, <<"{", "@", "h", "i", "t", " ">>)
    IN IF hits = <<>> THEN Null
       ELSE LET number == PyIntOfStr(Strip(LStripPlus(hits[1].group)))
            IN IF IsRaise(number) THEN Null ELSE number

DamagePart_typed_from_text_start(text, match) ==
    Dict("damage_dice" :> parse_damage_expression(match.group).dice
         @@ "damage_bonus" :> parse_damage_expression(match.group).bonus
         @@ "damage_type" :> extract_damage_type_from_text(text, 0))

\* one element of additional_damage
DamagePart(text, match) ==
    Dict("damage_dice" :> parse_damage_expression(match.group).dice
         @@ "damage_bonus" :> parse_damage_expression(match.group).bonus
         @@ "damage_type" :> extract_damage_type_from_text(text, match.start))

\* extract_monster_attack(monster_name, source, action_name, text): the attack
\* fact of a text, or None when the text holds no {@atk ..} tag
extract_monster_attack(monster_name, source, action_name, text) ==
    LET atk == FindMarks(text.s, 0, <<"{", "@", "a", "t", "k", " ">>)
        reached == extract_reach_or_range(text.s)
        damage_matches == FindMarks(text.s, 0, <<"{", "@", "d", "a", "m", "a", "g", "e", " ">>)
        common == "monster_name" :> monster_name @@ "source" :> source
                  @@ "action_name" :> action_name
                  @@ "attack_type" :> Str(ATTACK_TYPES(atk[1].group))
                  @@ "to_hit" :> ToHit(text.s)
                  @@ "reach" :> reached.reach
                  @@ "range_normal" :> (IF Falsy(reached.range_long) THEN reached.reach
                                        ELSE reached.range_long)
                  @@ "range_long" :> reached.range_long
    IN IF atk = <<>> THEN Null
       ELSE IF damage_matches = <<>>
       THEN Dict(common @@ "damage_dice" :> Null @@ "damage_bonus" :> Null
                 @@ "damage_type" :> Null @@ "additional_damage" :> List(<<>>))
       ELSE Dict(common
                 @@ "damage_dice" :> parse_damage_expression(damage_matches[1].group).dice
                 @@ "damage_bonus" :> parse_damage_expression(damage_matches[1].group).bonus
                 @@ "damage_type" :>
                        extract_damage_type_from_text(text.s, damage_matches[1].start)
                 @@ "additional_damage" :>
                        List([i \in 1..(Len(damage_matches) - 1) |->
                                DamagePart(text.s, damage_matches[i + 1])])
                 @@ "full_text" :> text)

damage_fields_to_check ==
    <<[field_name |-> "action", context_type |-> Str(<<"a", "c", "t", "i", "o", "n">>)],
      [field_name |-> "bonus", context_type |-> Str(<<"b", "o", "n", "u", "s", " ", "a", "c",
                                                      "t", "i", "o", "n">>)],
      [field_name |-> "legendary", context_type |-> Str(<<"l", "e", "g", "e", "n", "d", "a", "r",
                                                          "y", " ", "a", "c", "t", "i", "o", "n">>)],
      [field_name |-> "reaction", context_type |-> Str(<<"r", "e", "a", "c", "t", "i", "o",
                                                         "n">>)]>>

\* the attacks of the texts of one ability, each with its context
AttacksOfTexts(texts, monster_name, source, ability_name, context_type) ==
    LET attack(i) == extract_monster_attack(monster_name, source, ability_name, texts[i])
        found == SelectSeq([i \in 1..Len(texts) |-> attack(i)], LAMBDA a : ~Falsy(a))
    IN [i \in 1..Len(found) |-> Put(found[i], "context", context_type)]

\* the body of the loop over the abilities of one section
AttackAbilityOutcome(monster, check, ability) ==
    IF ability.t # "dict" THEN Raise("AttributeError")
    ELSE IF Has(ability, "entries")
    THEN List(AttacksOfTexts(extract_from_entries(ability.d["entries"]),
                             GetOr(monster, "name", Unknown), GetOr(monster, "source", Unknown),
                             GetOr(ability, "name", Unknown), check.context_type))
    ELSE List(<<>>)

\* the body of the loop over fields_to_check
AttackSectionOutcome(monster, check) ==
    IF ~Has(monster, check.field_name) THEN List(<<>>)
    ELSE LET abilities_of == Iterated(monster.d[check.field_name])
         IN IF IsRaise(abilities_of) THEN abilities_of
            ELSE Gather([i \in 1..Len(abilities_of.items) |->
                           AttackAbilityOutcome(monster, check, abilities_of.items[i])])

\* the body of the loop over the monsters
AttackMonsterOutcome(monster) ==
    IF monster.t # "dict" THEN Raise("AttributeError")
    ELSE Gather([i \in 1..Len(damage_fields_to_check) |->
                   AttackSectionOutcome(monster, damage_fields_to_check[i])])

extract_monster_damage(monsters) ==
    Gather([i \in 1..Len(monsters) |-> AttackMonsterOutcome(monsters[i])])

----------------------------------------------------------------------------
(* import_extracted_data.py: the attacks stored in monster_attacks *)

\* the rows of the table monsters joined with sources: the id of (name, code)
lookup_monster_by_name_source(name, source) ==
    IF name = Str(<<"O", "r", "c">>) /\ source = Str(<<"M", "M">>) THEN IntV(1)
    ELSE IF name = Str(<<"E", "l", "f">>) /\ source = Str(<<"M", "M">>) THEN IntV(2)
    ELSE Null

\* the rows of the table attack_types, by code
attack_types ==
    <<<<"m", "e", "l", "e", "e", " ", "w", "e", "a", "p", "o", "n">>, <<"r", "a", "n", "g", "e",
                                                                        "d", " ", "w", "e", "a", "p", "o", "n">>, <<"m", "e", "l", "e", "e", " ", "s", "p", "e", "l", "l">>, <<"r", "a", "n", "g", "e", "d", " ", "s", "p", "e", "l", "l">>,
      <<"m", "e", "l", "e", "e", " ", "o", "r", " ", "r", "a", "n", "g", "e", "d", " ", "w", "e",
        "a", "p", "o", "n">>, <<"m", "e", "l", "e", "e", " ", "o", "r", " ", "r", "a", "n", "g",
                                "e", "d", " ", "s", "p", "e", "l", "l">>>>

\* cache.get(key.lower()) over a lookup table
LookupIn(table, key) ==
    LET found == {i \in 1..Len(table) : table[i] = LowerText(key.s)}
    IN IF found = {} THEN Null ELSE IntV(Least(found))

lookup_attack_type(attack_type_code) == LookupIn(attack_types, attack_type_code)
lookup_damage_type(damage_type) == LookupIn(DAMAGE_TYPES, damage_type)

\* the state of the import: the rows of monster_attacks and the ImportStats
NoneStored == [rows |-> <<>>, succeeded |-> 0, failed |-> 0, skipped |-> 0, warnings |-> 0]

\* a value .lower() cannot be called on reaches a lookup
BadLookup(atk, k) == ~Falsy(Get(atk, k)) /\ Get(atk, k).t # "str"

\* extra_dmg = atk['additional_damage'][0]
FirstExtra_last(additional) == additional.items[Len(additional.items)]
FirstExtra(additional) == additional.items[1]

\* id of the type under key k, None when the value is falsy
TypeId(atk, k, Lookup(_)) == IF Falsy(Get(atk, k)) THEN Null ELSE Lookup(atk.d[k])

\* one round of the loop of import_monster_attacks
ImportAttack(db, atk) ==
    IF atk.t # "dict" \/ ~Has(atk, "monster_name") \/ ~Has(atk, "source")
    THEN [db EXCEPT !.failed = @ + 1]
    ELSE IF Falsy(lookup_monster_by_name_source(atk.d["monster_name"], atk.d["source"]))
    THEN [db EXCEPT !.skipped = @ + 1]
    ELSE IF BadLookup(atk, "attack_type") \/ BadLookup(atk, "damage_type")
    THEN [db EXCEPT !.failed = @ + 1]
    ELSE
    LET monster_id == lookup_monster_by_name_source(atk.d["monster_name"], atk.d["source"])
        attack_type_id == TypeId(atk, "attack_type", lookup_attack_type)
        damage_type_id == TypeId(atk, "damage_type", lookup_damage_type)
        warned == (IF ~Falsy(Get(atk, "attack_type")) /\ Falsy(attack_type_id) THEN 1 ELSE 0)
                  + (IF ~Falsy(Get(atk, "damage_type")) /\ Falsy(damage_type_id) THEN 1 ELSE 0)
        additional == Get(atk, "additional_damage")
        has_extra == ~Falsy(additional) /\ additional.t = "list"
        extra_dmg == FirstExtra(additional)
    IN IF \/ ~Falsy(additional) /\ additional.t # "list"
          \/ has_extra /\ (extra_dmg.t # "dict" \/ BadLookup(extra_dmg, "damage_type"))
          \/ ~Has(atk, "action_name")
       THEN [db EXCEPT !.failed = @ + 1, !.warnings = @ + warned]
       ELSE LET row == [monster_id |-> monster_id,
                        action_name |-> atk.d["action_name"],
                        attack_type_id |-> attack_type_id,
                        to_hit_bonus |-> Get(atk, "to_hit"),
                        reach_ft |-> Get(atk, "reach"),
                        range_normal_ft |-> Get(atk, "range_normal"),
                        range_long_ft |-> Get(atk, "range_long"),
                        damage_dice |-> Get(atk, "damage_dice"),
                        damage_bonus |-> GetOr(atk, "damage_bonus", IntV(0)),
                        damage_type_id |-> damage_type_id,
                        extra_damage_dice |->
                            IF has_extra THEN Get(extra_dmg, "damage_dice") ELSE Null,
                        extra_damage_bonus |->
                            IF has_extra THEN GetOr(extra_dmg, "damage_bonus", IntV(0))
                            ELSE IntV(0),
                        extra_damage_type_id |->
                            IF has_extra THEN TypeId(extra_dmg, "damage_type", lookup_damage_type)
                            ELSE Null]
                conflict == \E i \in 1..Len(db.rows) :
                               /\ db.rows[i].monster_id = row.monster_id
                               /\ db.rows[i].action_name = row.action_name
            IN [db EXCEPT !.rows = IF conflict THEN @ ELSE Append(@, row),
                          !.succeeded = @ + 1, !.warnings = @ + warned]

\* import_monster_attacks(conn, attacks, stats), from the state db
RECURSIVE import_monster_attacks(_, _)
import_monster_attacks(db, attacks) ==
    IF attacks = <<>> THEN db
    ELSE import_monster_attacks(ImportAttack(db, Head(attacks)), Tail(attacks))

----------------------------------------------------------------------------
(* extract_cross_refs.py: the references of monsters *)

\* the keys of a record in the order the file holds them
KeyOrder ==
    <<"name", "source", "trait", "action", "bonus", "reaction", "legendary",
      "entries", "type", "items">>
KeysOf(dict) == SelectSeq(KeyOrder, LAMBDA k : k \in DOMAIN dict.d)

\* str(n) for a natural number
RECURSIVE NatStr(_)
NatStr(n) ==
    IF n < 10 THEN <<CHOOSE c \in Digits : DigitVal(c) = n>>
    ELSE NatStr(n \div 10) \o <<CHOOSE c \in Digits : DigitVal(c) = n % 10>>

\* ", ".join(parts)
RECURSIVE JoinComma(_)
JoinComma(parts) ==
    IF parts = <<>> THEN <<>>
    ELSE IF Len(parts) = 1 THEN parts[1]
    ELSE parts[1] \o <<",", " ">> \o JoinComma(Tail(parts))

\* repr(s) of a str without backslashes or control characters
StrRepr(s) ==
    IF ~Contains(s, "'") THEN <<"'">> \o s \o <<"'">>
    ELSE IF ~Contains(s, "\"") THEN <<"\"">> \o s \o <<"\"">>
    ELSE <<"'">> \o Concat([i \in 1..Len(s) |-> IF s[i] = "'" THEN <<"\\", "'">> ELSE <<s[i]>>])
         \o <<"'">>

\* str(monster): the text of a parsed JSON value
RECURSIVE PyRepr(_)
PyRepr(x) ==
    CASE x.t = "null" -> <<"N", "o", "n", "e">>
      [] x.t = "bool" -> IF x.b THEN <<"T", "r", "u", "e">> ELSE <<"F", "a", "l", "s", "e">>
      [] x.t = "int" -> IF x.v < 0 THEN <<"-">> \o NatStr(0 - x.v) ELSE NatStr(x.v)
      [] x.t = "str" -> StrRepr(x.s)
      [] x.t = "list" -> <<"[">> \o JoinComma([i \in 1..Len(x.items) |-> PyRepr(x.items[i])])
                         \o <<"]">>
      [] x.t = "dict" ->
            <<"{">> \o JoinComma([i \in 1..Len(KeysOf(x)) |->
                           StrRepr(<<KeysOf(x)[i]>>) \o <<":", " ">> \o PyRepr(x.d[KeysOf(x)[i]])])
            \o <<"}">>

\* the match of r'\{@word ([^|}]+)(?:\|([^}]+))?\}' that starts at pos: its end and
\* its two groups ('' for a group that took no part), or end = 0 when there is none
RefAt(text, pos, opener) ==
    LET from == pos + Len(opener)
        name == RunNotIn(text, from, {"}", "|"})
        source == RunNotIn(text, from + name + 1, {"}"})
        none == [end |-> 0, name |-> <<>>, source |-> <<>>]
    IN IF ~StartsAt(text, pos, opener) \/ name = 0 THEN none
       ELSE IF StartsAt(text, from + name, <<"}">>)
       THEN [end |-> from + name + 1, name |-> Slice(text, from, from + name), source |-> <<>>]
       ELSE IF /\ StartsAt(text, from + name, <<"|">>) /\ source >= 1
               /\ StartsAt(text, from + name + 1 + source, <<"}">>)
       THEN [end |-> from + name + 2 + source, name |-> Slice(text, from, from + name),
             source |-> Slice(text, from + name + 1, from + name + 1 + source)]
       ELSE none

\* re.findall(pattern, all_text) from pos on
RECURSIVE FindRefs(_, _, _)
FindRefs(text, pos, opener) ==
    LET starts == {p \in pos..Len(text) : RefAt(text, p, opener).end # 0}
    IN IF starts = {} THEN <<>>
       ELSE <<RefAt(text, Least(starts), opener)>>
            \o FindRefs(text, RefAt(text, Least(starts), opener).end, opener)

\* ref_source if ref_source else None
SourceOrNone(ref) == IF ref.source = <<>> THEN Null ELSE Str(ref.source)

\* the end of the match of r'at will|\d+/day|recharge' (any letter case) at pos, or 0
UsageEnd(text, pos) ==
    LET digits == RunIn(text, pos, Digits)
    IN IF StartsAtFold(text, pos, <<"a", "t", " ", "w", "i", "l", "l">>) THEN pos + 7
       ELSE IF digits >= 1 /\ StartsAtFold(text, pos + digits, <<"/", "d", "a",
                                                                 "y">>) THEN pos + digits + 4
       ELSE IF StartsAtFold(text, pos, <<"r", "e", "c", "h", "a", "r", "g", "e">>) THEN pos + 8
       ELSE 0

\* frequency: the first usage wording in the shortest stretch of all_text that
\* runs from the first occurrence of the name to a usage wording; the name is
\* taken as a literal (it holds no character the pattern language gives a meaning)
Frequency(all_text, ref_name) ==
    LET named == {p \in 0..Len(all_text) : StartsAtFold(all_text, p, LowerText(ref_name))}
        usages == {q \in (Least(named) + Len(ref_name))..Len(all_text) :
                     UsageEnd(all_text, q) # 0}
        context_end == UsageEnd(all_text, Least(usages))
        within == {r \in Least(named)..context_end :
                     UsageEnd(all_text, r) # 0 /\ UsageEnd(all_text, r) <= context_end}
    IN IF named = {} THEN Null
       ELSE IF usages = {} THEN Null
       ELSE Str(LowerText(Slice(all_text, Least(within), UsageEnd(all_text, Least(within)))))

\* the three lists of one monster, given str(monster)
MonsterRefs(monster, all_text) ==
    LET monster_name == GetOr(monster, "name", Unknown)
        source == GetOr(monster, "source", Unknown)
        item_refs == FindRefs(all_text, 0, <<"{", "@", "i", "t", "e", "m", " ">>)
        spell_refs == FindRefs(all_text, 0, <<"{", "@", "s", "p", "e", "l", "l", " ">>)
        creature_refs == FindRefs(all_text, 0, <<"{", "@", "c", "r", "e", "a", "t", "u", "r",
                                                 "e", " ">>)
    IN [monster_to_item |->
            [i \in 1..Len(item_refs) |->
                Dict("monster_name" :> monster_name @@ "monster_source" :> source
                     @@ "item_name" :> Str(item_refs[i].name)
                     @@ "item_source" :> SourceOrNone(item_refs[i]))],
        monster_to_spell |->
            [i \in 1..Len(spell_refs) |->
                Dict("monster_name" :> monster_name @@ "monster_source" :> source
                     @@ "spell_name" :> Str(spell_refs[i].name)
                     @@ "spell_source" :> SourceOrNone(spell_refs[i])
                     @@ "frequency" :> Frequency(all_text, spell_refs[i].name))],
        monster_to_creature |->
            [i \in 1..Len(creature_refs) |->
                Dict("monster_name" :> monster_name @@ "monster_source" :> source
                     @@ "creature_name" :> Str(creature_refs[i].name)
                     @@ "creature_source" :> SourceOrNone(creature_refs[i]))]]

\* extract_monster_references(monsters): the three lists, or the AttributeError
\* of monster.get on a value that is not a record
extract_monster_references(monsters) ==
    IF \E i \in 1..Len(monsters) : monsters[i].t # "dict" THEN Raise("AttributeError")
    ELSE LET refs == [i \in 1..Len(monsters) |->
                        Only({MonsterRefs(monsters[i], all_text) :
                                all_text \in {PyRepr(monsters[i])}})]
         IN Dict("monster_to_item" :>
                     List(Concat([i \in 1..Len(monsters) |-> refs[i].monster_to_item]))
                 @@ "monster_to_spell" :>
                     List(Concat([i \in 1..Len(monsters) |-> refs[i].monster_to_spell]))
                 @@ "monster_to_creature" :>
                     List(Concat([i \in 1..Len(monsters) |-> refs[i].monster_to_creature])))

----------------------------------------------------------------------------
(* normalize_type_codes.py: the generic-variant marker of type codes *)

\* normalize_type_code(item): the item as it is left, or the AttributeError of
\* .get on a value that is not a record, of .startswith on a value that is not a str
normalize_type_code(item) ==
    IF item.t # "dict" THEN Raise("AttributeError")
    ELSE LET type_code == GetOr(item, "type", Str(<<>>))
         IN IF Falsy(type_code) THEN Put(item, "is_generic_variant", Bool(FALSE))
            ELSE IF type_code.t # "str" THEN Raise("AttributeError")
            ELSE IF Head(type_code.s) = "$"
                 THEN Put(Put(item, "is_generic_variant", Bool(TRUE)),
                          "type", Str(Tail(type_code.s)))
                 ELSE Put(item, "is_generic_variant", Bool(FALSE))

\* i.get("type", "").startswith("$") raises for a value that is not a str
DollarTestRaises(item) ==
    item.t # "dict" \/ GetOr(item, "type", Str(<<>>)).t # "str"

\* for item in items: item = normalize_type_code(item)
RECURSIVE NormalizeEach(_)
NormalizeEach(items) ==
    IF items = <<>> THEN List(<<>>)
    ELSE IF IsRaise(normalize_type_code(Head(items))) THEN normalize_type_code(Head(items))
    ELSE LET rest == NormalizeEach(Tail(items))
         IN IF IsRaise(rest) THEN rest
            ELSE List(<<normalize_type_code(Head(items))>> \o rest.items)

\* main of normalize_type_codes.py: the list written back to items_extracted.json,
\* or the exception that ends the script before the file is written
normalize_type_codes(items) ==
    IF \E i \in 1..Len(items) : DollarTestRaises(items[i])
    THEN Raise("AttributeError")
    ELSE NormalizeEach(items)

----------------------------------------------------------------------------
(* normalize_bonuses.py: the bonus fields of items *)

BONUS_FIELDS ==
    <<"bonusWeapon", "bonusAc", "bonusSpellAttack", "bonusSpellSaveDc",
      "bonusSavingThrow", "bonusAbilityCheck", "bonusProficiencyBonus">>

\* isinstance(value, int): bool is a subclass of int
IsInstanceInt(value) == value.t \in {"int", "bool"}

\* normalize_bonus(value): an int, or None
normalize_bonus(value) ==
    IF value.t = "null" THEN Null
    ELSE IF IsInstanceInt(value) THEN value
    ELSE IF value.t = "str"
         THEN LET number == PyIntOfStr(Strip(LStripPlus(Strip(value.s))))
              IN IF IsRaise(number) THEN Null ELSE number
    ELSE Null

\* the fields of BONUS_FIELDS that the loop of normalize_item_bonuses assigns
Renewed(item) ==
    {field \in DOMAIN item.d :
        /\ \E i \in 1..Len(BONUS_FIELDS) : BONUS_FIELDS[i] = field
        /\ normalize_bonus(item.d[field]) # Null
        /\ normalize_bonus(item.d[field]) # item.d[field]}

\* the item after the body of for field in BONUS_FIELDS
NormalizeItem(item) ==
    Dict([k \in DOMAIN item.d |->
            IF k \in Renewed(item) THEN normalize_bonus(item.d[k]) ELSE item.d[k]])

RECURSIVE CountRenewed(_)
CountRenewed(items) ==
    IF items = <<>> THEN 0
    ELSE Cardinality(Renewed(Head(items))) + CountRenewed(Tail(items))

\* normalize_item_bonuses(items): the pair (items, normalized_count), over lists of
\* records and of values that are no containers (field in item raises TypeError)
normalize_item_bonuses(items) ==
    IF \E i \in 1..Len(items) : items[i].t # "dict" THEN Raise("TypeError")
    ELSE [t |-> "tuple",
          items |-> <<List([i \in 1..Len(items) |-> NormalizeItem(items[i])]),
                      IntV(CountRenewed(items))>>]

\* any(f in i for f in BONUS_FIELDS)
HasBonus(item) == \E i \in 1..Len(BONUS_FIELDS) : Has(item, BONUS_FIELDS[i])

\* validate_bonuses(records, record_type) of normalize_bonuses.py raises KeyError
\* when it reports a record that has no name
ReportRaises(records) ==
    \E r \in 1..Len(records) :
        /\ ~Has(records[r], "name")
        /\ \E i \in 1..Len(BONUS_FIELDS) :
              /\ Has(records[r], BONUS_FIELDS[i])
              /\ ~IsInstanceInt(records[r].d[BONUS_FIELDS[i]])

\* main of normalize_bonuses.py up to the saving of items_extracted.json: the list
\* written, or the exception that ends the script before the file is written
normalize_bonuses(items) ==
    IF \E i \in 1..Len(items) : items[i].t # "dict" THEN Raise("TypeError")
    ELSE LET holders == SelectSeq(items, HasBonus)
             bonus_items == SubSeq(holders, 1, IF Len(holders) < 3 THEN Len(holders) ELSE 3)
         IN IF \E i \in 1..Len(bonus_items) : ~Has(bonus_items[i], "name")
            THEN Raise("KeyError")
            ELSE LET normal == normalize_item_bonuses(items).items[1]
                 IN IF ReportRaises(normal.items) THEN Raise("KeyError") ELSE normal

----------------------------------------------------------------------------
(* validate_extraction.py: the checks on the extracted files *)

\* a results record; each message is held as the value it names
Results(passed, errors) == Dict("passed" :> Bool(passed) @@ "errors" :> List(errors))

\* '{@' in record.get('name', ''): a truth value, or the exception raised
HasMarkup(record) ==
    IF record.t # "dict" THEN Raise("AttributeError")
    ELSE LET name == GetOr(record, "name", Str(<<>>))
         IN CASE name.t = "str" ->
                     Bool(\E i \in 1..(Len(name.s) - 1) : name.s[i] = "{" /\ name.s[i + 1] = "@")
              [] name.t = "list" -> Bool(\E i \in 1..Len(name.items) : name.items[i] = Str(<<"{",
                                                                                             "@">>))
              [] name.t = "dict" -> Bool(Has(name, "{@"))
              [] OTHER -> Raise("TypeError")

\* the names with markup among records, in order
MarkupNames(records) ==
    LET marked == SelectSeq(records, LAMBDA r : HasMarkup(r) = Bool(TRUE))
    IN [i \in 1..Len(marked) |-> marked[i].d["name"]]

\* validate_names(items, monsters, spells)
validate_names(items, monsters, spells) ==
    LET all == items \o monsters \o spells
        errors == MarkupNames(all)
        items_without_base == SelectSeq(items, LAMBDA i : ~Has(i, "base_name"))
    IN IF \E i \in 1..Len(all) : IsRaise(HasMarkup(all[i]))
       THEN HasMarkup(all[Least({i \in 1..Len(all) : IsRaise(HasMarkup(all[i]))})])
       ELSE IF items_without_base # <<>>
            THEN Results(FALSE, errors \o <<IntV(Len(items_without_base))>>)
            ELSE Results(errors = <<>>, errors)

bonus_fields ==
    <<"bonusWeapon", "bonusAc", "bonusSpellAttack", "bonusSpellSaveDc", "bonusSavingThrow">>

\* the fields of bonus_fields that item holds with a value that is no int
NonInteger(item) ==
    SelectSeq(bonus_fields, LAMBDA field : Has(item, field) /\ ~IsInstanceInt(item.d[field]))

\* the messages of validate_bonuses for items, one per field reported
RECURSIVE BonusErrors(_)
BonusErrors(items) ==
    IF items = <<>> THEN <<>>
    ELSE [i \in 1..Len(NonInteger(Head(items))) |-> Head(items).d["name"]]
         \o BonusErrors(Tail(items))

\* validate_bonuses(items), over lists of records; item['name'] raises KeyError
\* when a record to report has no name
validate_bonuses(items) ==
    IF \E i \in 1..Len(items) : NonInteger(items[i]) # <<>> /\ ~Has(items[i], "name")
    THEN Raise("KeyError")
    ELSE Results(BonusErrors(items) = <<>>, BonusErrors(items))

\* item['type'].startswith('$') for a type that is a str
DollarType(item) ==
    /\ Has(item, "type")
    /\ item.d["type"].t = "str"
    /\ item.d["type"].s # <<>>
    /\ Head(item.d["type"].s) = "$"

\* the messages of the loop of validate_type_codes, which ends at the first item
\* without the key is_generic_variant
RECURSIVE TypeErrors(_)
TypeErrors(items) ==
    IF items = <<>> THEN <<>>
    ELSE (IF DollarType(Head(items)) THEN <<Head(items).d["name"]>> ELSE <<>>)
         \o (IF ~Has(Head(items), "is_generic_variant")
             THEN <<Head(items).d["name"]>>
             ELSE TypeErrors(Tail(items)))

\* the items the loop of validate_type_codes reaches
RECURSIVE Reached(_)
Reached(items) ==
    IF items = <<>> THEN <<>>
    ELSE IF ~Has(Head(items), "is_generic_variant") THEN <<Head(items)>>
    ELSE <<Head(items)>> \o Reached(Tail(items))

\* validate_type_codes(items), over lists of records
validate_type_codes(items) ==
    IF \E i \in 1..Len(Reached(items)) :
          /\ DollarType(Reached(items)[i]) \/ ~Has(Reached(items)[i], "is_generic_variant")
          /\ ~Has(Reached(items)[i], "name")
    THEN Raise("KeyError")
    ELSE Results(TypeErrors(items) = <<>>, TypeErrors(items))

expected_files ==
    <<"conditions_extracted.json", "damage_extracted.json", "cross_refs_extracted.json">>

\* the keys whose lists are counted in a file
CountedKeys(filename, data) ==
    CASE filename = "conditions_extracted.json" -> {"items", "monsters", "spells"}
      [] filename = "damage_extracted.json" -> {"items", "monster_attacks", "spells"}
      [] OTHER -> {}

\* what the body of the loop of validate_extracted_files does with one file: "ok",
\* "missing", "invalid", or the exception it does not catch
FileOutcome(filename, data) ==
    IF data = Absent THEN "missing"
    ELSE IF data = Raise("JSONDecodeError") THEN "invalid"
    ELSE IF data.t # "dict" THEN "AttributeError"
    ELSE IF \E k \in CountedKeys(filename, data) :
               Has(data, k) /\ data.d[k].t \notin {"list", "dict", "str"}
         THEN "TypeError"
         ELSE "ok"

\* validate_extracted_files(extraction_dir); files gives each file name what
\* json.load reads from it (Absent for a file that does not exist)
validate_extracted_files(files) ==
    LET outcome(i) == FileOutcome(expected_files[i], files.d[expected_files[i]])
        uncaught == {i \in 1..Len(expected_files) : outcome(i) \in {"AttributeError", "TypeError"}}
        failed == SelectSeq(expected_files, LAMBDA f : FileOutcome(f, files.d[f]) # "ok")
    IN IF uncaught # {} THEN Raise(outcome(Least(uncaught)))
       ELSE Results(failed = <<>>, [i \in 1..Len(failed) |-> Str(<<failed[i]>>)])

\* main(): the exit status with the status line of the report written, or the
\* exception that ends the script before a report is written
Ended(code, status) == [t |-> "exit", code |-> code, report |-> status]

validation_main(items, monsters, spells, files) ==
    IF Absent \in {items, monsters, spells} THEN Raise("FileNotFoundError")
    ELSE LET names == validate_names(items.items, monsters.items, spells.items)
             bonuses == validate_bonuses(items.items)
             type_codes == validate_type_codes(items.items)
             extracted_files == validate_extracted_files(files)
             all_passed == /\ names.d["passed"].b /\ bonuses.d["passed"].b
                           /\ type_codes.d["passed"].b /\ extracted_files.d["passed"].b
         IN IF IsRaise(names) THEN names
            ELSE IF IsRaise(bonuses) THEN bonuses
            ELSE IF IsRaise(type_codes) THEN type_codes
            ELSE IF IsRaise(extracted_files) THEN extracted_files
            ELSE IF all_passed THEN Ended(0, "PASSED") ELSE Ended(1, "FAILED")

\* the exit status of the process: 1 for an exception that is not caught
ExitStatus(outcome) == IF IsRaise(outcome) THEN 1 ELSE outcome.code

Succeeded_despite_signal(status) == status <= 0

\* run_script(script_name, description) of extract_all.py: subprocess.run with
\* check=True raises CalledProcessError for an exit status other than 0
Succeeded(status) == status = 0

\* main of extract_all.py from its last script on, the scripts before it having
\* succeeded
extract_all(status) == IF ~Succeeded(status) THEN 1 ELSE 0

----------------------------------------------------------------------------
(* validate_import.py *)

\* class Severity
Severity == {"CRITICAL", "MAJOR", "MINOR", "INFO"}

\* ValidationResult(): no check passed, no issue recorded
ValidationResult == [passed |-> <<>>, issues |-> <<>>]

add_pass(result, check_name) == [result EXCEPT !.passed = Append(@, check_name)]
\* an issue is modelled by its category and its severity
add_issue(result, issue) == [result EXCEPT !.issues = Append(@, issue)]

has_critical(result) == \E i \in 1..Len(result.issues) : result.issues[i].severity = "CRITICAL"
has_major(result) == \E i \in 1..Len(result.issues) : result.issues[i].severity = "MAJOR"
has_minor(result) == \E i \in 1..Len(result.issues) : result.issues[i].severity = "MINOR"

get_exit_code_major_first(result) ==
    IF has_major(result) THEN 2
    ELSE IF has_critical(result) THEN 1
    ELSE IF has_minor(result) THEN 3
    ELSE 0

get_exit_code(result) ==
    IF has_critical(result) THEN 1
    ELSE IF has_major(result) THEN 2
    ELSE IF has_minor(result) THEN 3
    ELSE 0

\* run_all_validations: the validations in the order they are called, each with
\* the severities of the issues it can record
validations ==
    << [name |-> "entity_counts", severities |-> {"CRITICAL", "MAJOR"}, info |-> FALSE],
       [name |-> "foreign_keys", severities |-> {"CRITICAL"}, info |-> FALSE],
       [name |-> "duplicates", severities |-> {"CRITICAL"}, info |-> FALSE],
       [name |-> "null_values", severities |-> {"CRITICAL"}, info |-> TRUE],
       [name |-> "data_ranges", severities |-> {"CRITICAL", "MAJOR"}, info |-> FALSE],
       [name |-> "schema", severities |-> {"MAJOR", "MINOR", "CRITICAL"}, info |-> FALSE],
       [name |-> "source_data_match", severities |-> {"CRITICAL"}, info |-> FALSE] >>

\* what one check of a validation finds in the database: it passes, or it
\* records an issue of one of the validation's severities
Checked(result, v, found) ==
    IF found = "pass" THEN add_pass(result, v.name)
    ELSE add_issue(result, [category |-> v.name, severity |-> found])

\* validate_null_values also reports the monsters without a challenge rating
Informed(result, v, some) ==
    IF v.info /\ some THEN add_issue(result, [category |-> v.name, severity |-> "INFO"])
    ELSE result

InitValidate ==
    /\ pcValidate = "connect"
    /\ validation = Null
    /\ exitValidate = NotRun
    /\ disk = Absent /\ IdleClean /\ IdleCleanAll /\ IdlePipeline /\ IdleExtract
    /\ IdleImport /\ IdleExtractAll

ValidateUnchanged == UNCHANGED <<disk, cleanVars, cleanAllVars, pipeVars, extractVars, importVars,
                                 extractAllVars>>

\* main: conn = get_connection(); a connection that fails ends main with return 1
\* (get_connection itself calls sys.exit(1) on psycopg2.OperationalError)
Connect ==
    /\ pcValidate = "connect"
    /\ \E connected \in BOOLEAN :
          IF connected
          THEN /\ validation' = ValidationResult
               /\ pcValidate' = validations[1].name
               /\ UNCHANGED exitValidate
          ELSE /\ pcValidate' = "exited"
               /\ exitValidate' = 1
               /\ UNCHANGED validation
    /\ ValidateUnchanged

\* one validation of run_all_validations: its queries run and a check passes or
\* records an issue; a query that raises (a table that is missing) is caught
\* nowhere and ends the script with a traceback, exit status 1
Validate ==
    /\ \E k \in 1..Len(validations) :
       /\ pcValidate = validations[k].name
       /\ \E found \in {"pass", "raise"} \cup validations[k].severities,
             some \in (IF validations[k].info THEN BOOLEAN ELSE {FALSE}) :
             IF found = "raise"
             THEN /\ ~some
                  /\ pcValidate' = "exited"
                  /\ exitValidate' = 1
                  /\ UNCHANGED validation
             ELSE /\ validation' = Informed(Checked(validation, validations[k], found),
                                            validations[k], some)
                  /\ pcValidate' = IF k = Len(validations) THEN "summary"
                                   ELSE validations[k + 1].name
                  /\ UNCHANGED exitValidate
    /\ ValidateUnchanged

\* main: the summary is printed, conn.close(), return result.get_exit_code();
\* sys.exit(main())
Summary ==
    /\ pcValidate = "summary"
    /\ pcValidate' = "exited"
    /\ exitValidate' = get_exit_code(validation)
    /\ UNCHANGED validation
    /\ ValidateUnchanged

NextValidate == Connect \/ Validate \/ Summary

SpecValidate == InitValidate /\ [][NextValidate]_vars

----------------------------------------------------------------------------
(* db_helpers.py: one process on one connection.  A state of the process is  *)
(* the record of the committed rows (database), the rows as the connection's *)
(* open transaction sees them (pending), _LOOKUP_CACHE (lookupCache), the    *)
(* ImportStats (stats) and the value the last call returned.  The id of a    *)
(* row is its position in its table.                                         *)

\* c.upper()
ToUpper(c) ==
    IF \E i \in 1..Len(LowerCase) : LowerCase[i] = c
    THEN UpperCase[CHOOSE i \in 1..Len(LowerCase) : LowerCase[i] = c]
    ELSE c

\* text.upper()
UpperText(text) == [i \in 1..Len(text) |-> ToUpper(text[i])]

\* conn.commit() and conn.rollback()
Commit(s) == [s EXCEPT !.database = s.pending]
Rollback(s) == [s EXCEPT !.pending = s.database]

\* return value
Return(s, value) == [s EXCEPT !.returned = value]

\* _LOOKUP_CACHE = {}: no table has an entry; the entry of a table is present
\* once _LOOKUP_CACHE[table] was assigned, and entries are its (key, id) pairs
NoCache ==
    [table \in {"item_properties", "creature_types", "creature_sizes"} |->
        [present |-> FALSE, entries |-> {}]]

\* cache.get(key) on _LOOKUP_CACHE[table]
CacheGet(s, table, key) ==
    LET hits == {e \in s.lookupCache[table].entries : e.key = key}
    IN IF hits = {} THEN Null ELSE IntV((CHOOSE e \in hits : TRUE).id)

\* _LOOKUP_CACHE[table][key] = id
CachePut(s, table, key, id) ==
    [s EXCEPT !.lookupCache[table].entries =
                  {e \in @ : e.key # key} \cup {[key |-> key, id |-> id]}]

\* _load_lookup_cache(conn, table, key_column): the whole table is read, once,
\* when _LOOKUP_CACHE has no entry for the table
load_lookup_cache(s, table) ==
    IF s.lookupCache[table].present THEN s
    ELSE LET rows == s.pending[table]
             keys == {LowerText(rows[i]) : i \in 1..Len(rows)}
             last(key) == CHOOSE i \in 1..Len(rows) :
                             /\ LowerText(rows[i]) = key
                             /\ \A j \in (i + 1)..Len(rows) : LowerText(rows[j]) # key
         IN [s EXCEPT !.lookupCache[table] =
                          [present |-> TRUE,
                           entries |-> {[key |-> key, id |-> last(key)] : key \in keys}]]

lookup_creature_type(s, creature_type) ==
    LET loaded == load_lookup_cache(s, "creature_types")
    IN Return(loaded, CacheGet(loaded, "creature_types", LowerText(creature_type.s)))

lookup_creature_size(s, size_code) ==
    LET loaded == load_lookup_cache(s, "creature_sizes")
    IN Return(loaded, CacheGet(loaded, "creature_sizes", LowerText(size_code.s)))

\* the body the lookup_or_create_* functions share: the cache entry of the
\* table is created empty when there is none, the key is looked for in the
\* cache, then with a SELECT, and else the row is inserted and committed
LookupOrCreate(s, table, cache_key, stored_key) ==
    LET c == [s EXCEPT !.lookupCache[table].present = TRUE]
        rows == c.pending[table]
        result == {i \in 1..Len(rows) : rows[i] = stored_key}
        new_id == Len(rows) + 1
    IN IF CacheGet(c, table, cache_key) # Null THEN Return(c, CacheGet(c, table, cache_key))
       ELSE IF result # {}
       THEN Return(CachePut(c, table, cache_key, Least(result)), IntV(Least(result)))
       ELSE Return(CachePut(Commit([c EXCEPT !.pending[table] = Append(@, stored_key)]),
                            table, cache_key, new_id),
                   IntV(new_id))

\* a property_code that is no str has no .lower(): AttributeError, after the
\* cache entry of the table was created
lookup_or_create_item_property(s, property_code) ==
    IF property_code.t # "str"
    THEN Return([s EXCEPT !.lookupCache["item_properties"].present = TRUE],
                Raise("AttributeError"))
    ELSE LookupOrCreate(s, "item_properties", LowerText(property_code.s), property_code.s)

lookup_or_create_creature_type(s, type_name) ==
    LookupOrCreate(s, "creature_types", LowerText(type_name.s), LowerText(type_name.s))

lookup_or_create_creature_size(s, size_code) ==
    LookupOrCreate(s, "creature_sizes", LowerText(size_code.s), UpperText(size_code.s))

----------------------------------------------------------------------------
(* db_helpers.ImportStats, import_items.py and import_extracted_data.py *)

\* ImportStats(): the counters, and the lengths of the lists warnings and errors
ImportStats ==
    [processed |-> 0, succeeded |-> 0, failed |-> 0, skipped |-> 0, warnings |-> 0, errors |-> 0]

record_success(s) == [s EXCEPT !.stats.processed = @ + 1, !.stats.succeeded = @ + 1]
record_failure(s) ==
    [s EXCEPT !.stats.processed = @ + 1, !.stats.failed = @ + 1, !.stats.errors = @ + 1]
record_skip(s) ==
    [s EXCEPT !.stats.processed = @ + 1, !.stats.skipped = @ + 1, !.stats.warnings = @ + 1]
record_warning(s) == [s EXCEPT !.stats.warnings = @ + 1]

\* the rows of the tables the import only reads: sources by code, and
\* condition_types by name
sources == <<<<"P", "H", "B">>, <<"M", "M">>>>
condition_types ==
    <<<<"b", "l", "i", "n", "d", "e", "d">>, <<"c", "h", "a", "r", "m", "e", "d">>, <<"d", "e",
                                                                                      "a", "f", "e", "n", "e", "d">>, <<"e", "x", "h", "a", "u", "s", "t", "i", "o", "n">>, <<"f", "r", "i", "g", "h", "t", "e", "n", "e", "d">>, <<"g", "r", "a", "p", "p", "l", "e", "d">>,
      <<"i", "n", "c", "a", "p", "a", "c", "i", "t", "a", "t", "e", "d">>, <<"i", "n", "v", "i",
                                                                             "s", "i", "b", "l", "e">>, <<"p", "a", "r", "a", "l", "y", "z", "e", "d">>, <<"p", "e", "t", "r", "i", "f", "i", "e", "d">>, <<"p", "o", "i", "s", "o", "n", "e", "d">>, <<"p", "r", "o", "n", "e">>,
      <<"r", "e", "s", "t", "r", "a", "i", "n", "e", "d">>, <<"s", "t", "u", "n", "n", "e",
                                                              "d">>, <<"u", "n", "c", "o", "n",
                                                                       "s", "c", "i", "o", "u", "s">>>>

\* the cache of a table that is only read holds every row under its lower-cased key
lookup_source(source_code) ==
    LookupIn([i \in 1..Len(sources) |-> LowerText(sources[i])], source_code)
lookup_condition_type(condition_name) == LookupIn(condition_types, condition_name)

\* s.lstrip('$')
RECURSIVE LStripDollar(_)
LStripDollar(s) == IF s # <<>> /\ Head(s) = "$" THEN LStripDollar(Tail(s)) ELSE s

\* clean_type_code(type_code): None for a falsy code, the code without its '$'
\* prefix and its '|SOURCE' suffix for a str, AttributeError for another value
clean_type_code(type_code) ==
    IF Falsy(type_code) THEN Null
    ELSE IF type_code.t # "str" THEN Raise("AttributeError")
    ELSE LET stripped == LStripDollar(type_code.s)
         IN IF FirstAt(stripped, "|", 1) # 0
            THEN Str(SubSeq(stripped, 1, FirstAt(stripped, "|", 1) - 1))
            ELSE Str(stripped)

\* import_item: for prop_code in properties, from the state s; the value
\* returned is the exception when a round raises
RECURSIVE InsertProperties(_, _, _)
InsertProperties(s, item_id, properties) ==
    IF properties = <<>> THEN Return(s, Null)
    ELSE LET prop_code_cleaned == clean_type_code(Head(properties))
         IN IF IsRaise(prop_code_cleaned) THEN Return(s, prop_code_cleaned)
            ELSE LET looked == lookup_or_create_item_property(s, prop_code_cleaned)
                     prop_id == looked.returned.v
                 IN IF IsRaise(looked.returned) THEN looked
                    ELSE InsertProperties(
                        [looked EXCEPT !.pending.item_item_properties = @ \cup {<<item_id,
                                                                                  prop_id>>}],
                        item_id, Tail(properties))

\* import_item(conn, item, stats) for a record item, from the state s
import_item(s, item) ==
    LET name == Get(item, "name")
        source_code == Get(item, "source")
        Failed(t) == Return(record_failure(Rollback(t)), Bool(FALSE))
    IN IF Falsy(name) THEN Return(record_skip(s), Bool(FALSE))
       ELSE IF Falsy(source_code) THEN Return(record_skip(s), Bool(FALSE))
       ELSE IF source_code.t # "str" THEN Failed(s)
       ELSE IF lookup_source(source_code) = Null THEN Return(record_failure(s), Bool(FALSE))
       ELSE LET item_id == Len(s.pending.items) + 1
                inserted == [s EXCEPT !.pending.items =
                                Append(@, [name |-> name, source_id |-> lookup_source(source_code)])]
                property == Get(item, "property")
                properties == IF property.t = "str" THEN <<property>> ELSE property.items
                linked == IF Falsy(property) THEN Return(inserted, Null)
                          ELSE InsertProperties(inserted, item_id, properties)
            IN IF IsRaise(linked.returned) THEN Failed(linked)
               ELSE Return(record_success(Commit(linked)), Bool(TRUE))

\* lookup_item_by_name_source(conn, name, source): the id of the first row of
\* items joined with sources that has the name and the source code
lookup_item_by_name_source(s, name, source) ==
    LET rows == s.pending.items
        result == {i \in 1..Len(rows) :
                      /\ rows[i].name = name
                      /\ source.t = "str" /\ sources[rows[i].source_id.v] = source.s}
    IN IF result = {} THEN Null ELSE IntV(Least(result))

\* import_item_conditions: the body of the loop, for one record cond
ImportItemCondition(s, cond) ==
    LET Failed(t) == record_failure(Rollback(t)) IN
    IF ~Has(cond, "item_name") \/ ~Has(cond, "source") THEN Failed(s)
    ELSE LET item_id == lookup_item_by_name_source(s, cond.d["item_name"], cond.d["source"])
         IN IF item_id = Null THEN record_skip(s)
            ELSE IF ~Has(cond, "condition") \/ cond.d["condition"].t # "str" THEN Failed(s)
            ELSE LET condition_id == lookup_condition_type(cond.d["condition"])
                 IN IF condition_id = Null THEN record_warning(s)
                    ELSE record_success(Commit(
                            [s EXCEPT !.pending.item_conditions =
                                          @ \cup {<<item_id.v, condition_id.v>>}]))

\* import_item_conditions(conn, conditions, stats), from the state s
RECURSIVE import_item_conditions(_, _)
import_item_conditions(s, conditions) ==
    IF conditions = <<>> THEN Return(s, Null)
    ELSE import_item_conditions(ImportItemCondition(s, Head(conditions)), Tail(conditions))

----------------------------------------------------------------------------
(* The inputs of the extraction phase *)

RECURSIVE Flat(_)
Flat(seqs) == IF seqs = <<>> THEN <<>> ELSE Head(seqs) \o Flat(Tail(seqs))

\* the item names: [a bonus prefix] a body [a space] [a trailing group] [a tag]
NamePrefixes == {<<>>, <<"+", "1", " ">>, <<"+", "1">>}
NameBodies ==
    {<<"A">>, <<"A", " ", "B">>, <<>>, <<"{", "@", "i", " ", "x", "}", "A">>, <<"A", "{", "@">>}
NameGroups ==
    {<<>>, <<"(", "2", "0", ")">>, <<"(", "+", "1", ")">>, <<"(", "b", "a", "g", ")">>,
     <<"(", "B", "a", "g", ")">>, <<"(", "x", ")">>, <<"(", " ", ")">>, <<"(", ")">>,
     <<"(", "^2", ")">>, <<"(", "x", ")", " ", "(", "2", "0", ")">>, <<"(", "2", "0">>,
     <<"(", "+", "1", " ", "x", ")">>}
NameTails == {<<>>, <<"{", "@", "n", " ", "m", "}">>}
Names ==
    {Str(Flat(<<prefix, body, space, group, tail>>)) :
        prefix \in NamePrefixes, body \in NameBodies, space \in {<<>>, <<" ">>},
        group \in NameGroups, tail \in NameTails}

\* the monster names: those of the documentation of extract_names.py, and the
\* item names, which hold tags that are not closed and tags at either end
MonsterNames ==
    {Str(<<"{", "@", "c", "r", "e", "a", "t", "u", "r", "e", " ", "A", "b", "o", "l", "e", "t",
           "h", "|", "M", "M", "}", " ", "S", "p", "a", "w", "n">>), Str(<<"{", "@", "i", "t",
                                                                           "e", "m", " ", "l", "o", "n", "g", "s", "w", "o", "r", "d", "|", "p", "h", "b", "}">>),
     Str(<<"E", "m", "p", "y", "r", "e", "a", "n", " ", "(", "M", "a", "i", "m", "e", "d", ")",
           "{", "@", "n", "o", "t", "e", " ", "m", "a", "i", "m", "e", "d", "}">>), Str(<<"G",
                                                                                          "o", "b", "l", "i", "n", " ", "B", "o", "s", "s">>), Str(<<"A", "y", "o", " ", "J", "a", "b", "e", " ", "(", "T", "i", "e", "r", " ", "1", ")">>),
     Str(<<"{", "@", "{", "@", "b", " ", "x", "}", " ", "O", "r", "c", "}">>), Str(<<"{", "{",
                                                                                     "@", "b", " ", "x", "}", "@", "c", "r", "e", "a", "t", "u", "r", "e", " ", "O", "r", "c", "}">>), Str(<<"{", "@", "}", "O", "r", "c">>)}
    \cup Names

\* an input of the given kind
Input(kind, v) == [kind |-> kind, v |-> v]

\* n characters of filling
Pad(n) == [i \in 1..n |-> "."]

\* the narrative texts: [words] filling [a tag] filling [words]
TextHeads ==
    {<<>>, <<"I", "m", "m", "u", "n", "e", " ", "t", "o", " ">>, <<"c", "a", "n", "'", "t", " ",
                                                                   "b", "e", " ">>, <<"D", "C",
                                                                                      " ", "1", "3", " ">>,
     <<"{", "@", "d", "c", " ", "1", "5", "}", " ">>, <<"D", "C", " ", "1", "3", " ", "{", "@",
                                                        "d", "c", " ", "1", "5", "}", " ">>}
TextTags ==
    {<<"{", "@", "c", "o", "n", "d", "i", "t", "i", "o", "n", " ", "P", "o", "i", "s", "o", "n",
       "e", "d", "|", "X", "P", "H", "B", "}">>, <<"{", "@", "c", "o", "n", "d", "i", "t", "i",
                                                   "o", "n", " ", "p", "}", " ", "{", "@", "c", "o", "n", "d", "i", "t", "i", "o", "n", " ", "q", "|", "X", "}">>,
     <<"{", "@", "c", "o", "n", "d", "i", "t", "i", "o", "n", " ", "p">>, <<"{", "@", "c", "o",
                                                                            "n", "d", "i", "t", "i", "o", "n", " ", "p", "|", "}">>,
     <<"{", "@", "c", "o", "n", "d", "i", "t", "i", "o", "n", " ", "p", " ", "{", "@", "c", "o",
       "n", "d", "i", "t", "i", "o", "n", " ", "q", "|", "X", "}">>}
TextTails ==
    {<<>>, <<" ", "i", "m", "m", "u", "n", "e", " ", "t", "o">>, <<" ", "D", "C", " ", "1",
                                                                   "5">>, <<" ", "{", "@", "d",
                                                                            "c", " ", "1", "2", "}", " ", "D", "C", " ", "1", "4">>,
     <<" ", "W", "i", "s", "d", "o", "m", " ", "s", "a", "v", "e", " ", "f", "o", "r", " ", "1",
       " ", "m", "i", "n", "u", "t", "e">>, <<" ", "d", "e", "x", "t", "e", "r", "i", "t", "y",
                                              " ", " ", "S", "a", "v", "i", "n", "g", " ", "T", "h", "r", "o", "w", " ", "u", "n", "t", "i", "l", " ", "d", "a", "w", "n", ",", " ", "t", "h", "e", "n">>}
HeadPads == {1, 90, 91, 191, 192, 196}
TailPads == {1, 194, 195}
Narrative(head, before, tag, after, tail) == Str(Flat(<<head, Pad(before), tag, Pad(after), tail>>))
WholeTag == <<"{", "@", "c", "o", "n", "d", "i", "t", "i", "o", "n", " ", "P", "o", "i", "s",
              "o", "n", "e", "d", "|", "X", "P", "H", "B", "}">>
Texts ==
    {Narrative(head, before, WholeTag, 1, <<>>) : head \in TextHeads, before \in HeadPads}
    \cup {Narrative(<<>>, 1, WholeTag, after, tail) : after \in TailPads, tail \in TextTails}
    \cup {Narrative(head, 1, tag, 1, tail) :
            head \in {<<>>, <<"I", "m", "m", "u", "n", "e", " ", "t", "o", " ">>, <<"D", "C",
                                                                                    " ", "1", "3", " ">>},
            tag \in TextTags, tail \in {<<>>, <<" ", "D", "C", " ", "1", "5">>}}
    \cup {Narrative(head, before, WholeTag, after, tail) :
            head \in {<<"D", "C", " ", "1", "3", " ">>, <<"{", "@", "d", "c", " ", "1", "5", "}",
                                                          " ">>}, before \in {1, 192},
            after \in {1, 195}, tail \in {<<" ", "D", "C", " ", "1", "5">>, <<" ", "{", "@", "d",
                                                                              "c", " ", "1", "2", "}", " ", "D", "C", " ", "1", "4">>}}
    \cup {Null, IntV(3), List(<<Str(<<"{", "@", "c", "o", "n", "d", "i", "t", "i", "o", "n", " ",
                                      "p", "}">>)>>), Str(<<>>)}

\* the attack texts: [an attack tag] [a to-hit tag] [a reach or a range] [damage]
AttackTags == {<<>>, <<"{", "@", "a", "t", "k", " ", "m", "w", "}", " ">>, <<"{", "@", "a", "t",
                                                                             "k", " ", "m", "w", ",", "r", "w", "}", " ">>, <<"{", "@", "a", "t", "k", " ", "z", "z", "}", " ">>}
HitTags == {<<>>, <<"{", "@", "h", "i", "t", " ", "5", "}", " ", "t", "o", " ", "h", "i", "t",
                    ",", " ">>, <<"{", "@", "h", "i", "t", " ", "+", "7", "}", " ">>, <<"{", "@",
                                                                                        "h", "i", "t", " ", "x", "}", " ">>, <<"{", "@", "h", "i", "t", " ", "-", "1", "}", " ">>}
Reaches ==
    {<<>>, <<"r", "e", "a", "c", "h", " ", "5", " ", "f", "t", ".", ",", " ">>, <<"r", "a", "n",
                                                                                  "g", "e", " ", "3", "0", "/", "1", "2", "0", " ", "f", "t", ".", ",", " ">>, <<"r", "a", "n", "g", "e", " ", "6", "0", " ", "f", "t", ".", " ">>,
     <<"r", "a", "n", "g", "e", " ", "0", "/", "0", " ", "f", "t", ".", " ", "o", "r", " ", "r",
       "e", "a", "c", "h", " ", "1", "0", " ", "f", "t", ".", " ">>, <<"r", "a", "n", "g", "e",
                                                                       " ", "2", "0", "/", "f", "t", ",", " ">>}
Damages ==
    {<<>>, <<"{", "@", "h", "}", "7", " ", "(", "{", "@", "d", "a", "m", "a", "g", "e", " ", "1",
             "d", "8", " ", "+", " ", "3", "}", ")", " ", "s", "l", "a", "s", "h", "i", "n", "g", " ", "d", "a", "m", "a", "g", "e", ".">>,
     <<"{", "@", "d", "a", "m", "a", "g", "e", " ", "2", "d", "6", "+", "1", "}", " ", "F", "i",
       "r", "e", " ", "p", "l", "u", "s", " ", "{", "@", "d", "a", "m", "a", "g", "e", " ", "1", "d", "6", "}", " ", "c", "o", "l", "d", " ", "d", "a", "m", "a", "g", "e", ".">>,
     <<"{", "@", "d", "a", "m", "a", "g", "e", " ", "1", "d", "8", " ", "+", " ", "3", "}", " ",
       "s", "l", "a", "s", "h", "i", "n", "g", " ", "p", "l", "u", "s", " ", "{", "@", "d", "a", "m", "a", "g", "e", " ", "1", "d", "6", "}", " ", "f", "i", "r", "e", " ", "a", "n", "d", " ", "{", "@", "d", "a", "m", "a", "g", "e", " ", "2", "d", "4", " ", "+", " ", " ", "2", "}", " ", "c", "o", "l", "d", ".">>,
     <<"{", "@", "d", "a", "m", "a", "g", "e", " ", "7", "}", " ", "p", "i", "e", "r", "c", "i",
       "n", "g", " ", "o", "r", " ", "{", "@", "d", "a", "m", "a", "g", "e", " ", " ", "x", " ", "}", " ", "o", "r", " ", "{", "@", "d", "a", "m", "a", "g", "e", " ", "1", "d", "4", " ", "-", " ", "1", "}">>,
     Flat(<<<<"{", "@", "d", "a", "m", "a", "g", "e", " ", "1", "d", "6", "}">>, Pad(33), <<"f",
                                                                                            "i", "r", "e">>>>),
     Flat(<<<<"{", "@", "d", "a", "m", "a", "g", "e", " ", "1", "d", "6", "}">>, Pad(34), <<"f",
                                                                                            "i", "r", "e", " ", "{", "@", "d", "a", "m", "a", "g", "e", " ", "1", "d", "4", "}">>>>)}
AttackTexts ==
    {Str(Flat(<<atk, <<"{", "@", "h", "i", "t", " ", "5", "}", " ", "t", "o", " ", "h", "i", "t",
                       ",", " ", "r", "e", "a", "c", "h", " ", "5", " ", "f", "t", ".", ",", " ">>, damage>>)) :
        atk \in AttackTags, damage \in Damages}
    \cup {Str(Flat(<<<<"{", "@", "a", "t", "k", " ", "m", "w", "}", " ">>, hit, reach, <<"{",
                                                                                         "@", "d", "a", "m", "a", "g", "e", " ", "1", "d", "8", " ", "+", " ", "3", "}", " ", "s", "l", "a", "s", "h", "i", "n", "g", ".">>>>)) :
            hit \in HitTags, reach \in Reaches}

\* a record of the keys whose value is there
Present(f) == Dict([k \in {x \in DOMAIN f : f[x] # Absent} |-> f[k]])

\* the abilities of a monster's section, and the sections
Bite ==
    Dict("name" :> Str(<<"B", "i", "t", "e">>)
         @@ "entries" :> List(<<Str(<<"D", "C", " ", "1", "2", " ", "o", "r", " ", "{", "@", "c",
                                      "o", "n", "d", "i", "t", "i", "o", "n", " ", "S", "t", "u", "n", "n", "e", "d", "}", " ", "f", "o", "r", " ", "1", " ", "m", "i", "n", "u", "t", "e">>)>>))
Claw ==
    Dict("name" :> Str(<<"C", "l", "a", "w">>)
         @@ "entries" :> List(<<Str(<<"{", "@", "a", "t", "k", " ", "m", "w", "}", " ", "{", "@",
                                      "h", "i", "t", " ", "4", "}", " ", "r", "e", "a", "c", "h", " ", "5", " ", "f", "t", ".", " ", "{", "@", "d", "a", "m", "a", "g", "e", " ", "1", "d", "6", " ", "+", " ", "2", "}", " ", "s", "l", "a", "s", "h", "i", "n", "g", " ", "p", "l", "u", "s", " ", "{", "@", "d", "a", "m", "a", "g", "e", " ", "1", "d", "4", "}", " ", "f", "i", "r", "e", " ", "a", "n", "d", " ", "{", "@", "d", "a", "m", "a", "g", "e", " ", "1", "d", "4", "}", " ", "c", "o", "l", "d", ",", " ", "{", "@", "c", "o", "n", "d", "i", "t", "i", "o", "n", " ", "P", "r", "o", "n", "e", "}">>),
                                Str(<<"n", "o", " ", "a", "t", "t", "a", "c", "k">>), Str(<<"{",
                                                                                            "@", "a", "t", "k", " ", "r", "s", "}", " ", "{", "@", "h", "i", "t", " ", "6", "}", " ", "r", "a", "n", "g", "e", " ", "6", "0", " ", "f", "t", ".">>)>>))
Cast ==
    Dict("name" :> Str(<<"S", "p", "e", "l", "l", "c", "a", "s", "t", "i", "n", "g">>)
         @@ "entries" :> List(<<Str(<<"c", "a", "s", "t", "s", " ", "{", "@", "s", "p", "e", "l",
                                      "l", " ", "f", "i", "r", "e", "b", "a", "l", "l", "}", " ", "3", "/", "d", "a", "y", " ", "a", "n", "d", " ", "{", "@", "s", "p", "e", "l", "l", " ", "S", "h", "i", "e", "l", "d", "|", "P", "H", "B", "}", " ", "a", "t", " ", "W", "i", "l", "l", ",", " ", "c", "a", "n", "'", "t", " ", "d", "r", "o", "p", " ", "i", "t", "s", " ", "{", "@", "i", "t", "e", "m", " ", "d", "a", "g", "g", "e", "r", "|", "P", "H", "B", "}">>),
                                Dict("type" :> Str(<<"l", "i", "s", "t">>)
                                     @@ "items" :> List(<<Str(<<"s", "u", "m", "m", "o", "n",
                                                                "s", " ", "a", " ", "{", "@", "c", "r", "e", "a", "t", "u", "r", "e", " ", "w", "o", "l", "f", "|", "M", "M", "}", " ", "o", "r", " ", "{", "@", "s", "p", "e", "l", "l", " ", "l", "i", "g", "h", "t", "}">>)>>))>>))
Abilities ==
    {Bite, Claw, Cast,
     Dict("entries" :> List(<<Str(<<"n", "o", " ", "t", "a", "g">>),
                              Dict("type" :> Str(<<"l", "i", "s", "t">>)
                                   @@ "items" :> List(<<Str(<<"i", "m", "m", "u", "n", "e", " ",
                                                              "t", "o", " ", "{", "@", "c", "o", "n", "d", "i", "t", "i", "o", "n", " ", "P", "r", "o", "n", "e", "|", "P", "H", "B", "}">>),
                                                        IntV(1)>>))>>)),
     Dict("name" :> Str(<<"B", "i", "t", "e">>) @@ "entries" :> Null),
     Dict("name" :> Str(<<"B", "i", "t", "e">>) @@ "entries" :> Str(<<"{", "@", "c", "o", "n",
                                                                      "d", "i", "t", "i", "o", "n", " ", "S", "t", "u", "n", "n", "e", "d">>)),
     Dict("name" :> Str(<<"B", "i", "t", "e">>))}
Sections ==
    {Absent, Null, IntV(3), Str(<<>>), Str(<<"x">>), EmptyDict, List(<<>>),
     List(<<Bite, Null>>), List(<<Str(<<"{", "@", "c", "o", "n", "d", "i", "t", "i", "o", "n",
                                        " ", "S", "t", "u", "n", "n", "e", "d", "}">>), Bite>>),
     List(<<Bite, Bite>>)}
    \cup {List(<<ability>>) : ability \in Abilities}
Monsters ==
    {Present([name |-> name, source |-> source, trait |-> trait, action |-> action]) :
        name \in {Str(<<"O", "r", "c">>)}, source \in {Str(<<"M", "M">>)},
        trait \in Sections, action \in {Absent, Null, List(<<Bite, Claw>>)}}
    \cup {Present([name |-> name, source |-> source, action |-> List(<<Claw, Cast>>)]) :
            name \in {Str(<<"O", "r", "c">>), Null, Absent}, source \in {Str(<<"M", "M">>), Absent}}
MonsterLists ==
    {List(<<monster>>) : monster \in Monsters}
    \cup {List(<<>>), List(<<Null>>)}
    \cup {List(<<Present([name |-> Str(<<"O", "r", "c">>), source |-> Str(<<"M", "M">>),
                                                                            legendary |-> first]),
                 Present([name |-> Str(<<"E", "l", "f">>), source |-> Str(<<"M", "M">>),
                                                                            bonus |-> second])>>) :
            first \in {Null, List(<<Bite>>), List(<<Claw>>)},
            second \in {List(<<Bite>>), List(<<IntV(1)>>), List(<<Claw>>)}}

\* the items and spells condition references are read from
Entities ==
    {Present([name |-> name, source |-> source, entries |-> entries]) :
        name \in {Str(<<"D", "a", "g", "g", "e", "r", " ", "o", "f", " ", "V", "e", "n", "o",
                        "m">>), Absent},
        source \in {Str(<<"D", "M", "G">>), Absent},
        entries \in {Absent, Null, Str(<<"c", "a", "n", "'", "t", " ", "b", "e", " ", "{", "@",
                                         "c", "o", "n", "d", "i", "t", "i", "o", "n", " ", "C", "h", "a", "r", "m", "e", "d", "}">>),
                     List(<<Str(<<"D", "C", " ", "1", "5", " ", "C", "o", "n", "s", "t", "i",
                                  "t", "u", "t", "i", "o", "n", " ", "s", "a", "v", "i", "n", "g", " ", "t", "h", "r", "o", "w", " ", "o", "r", " ", "{", "@", "c", "o", "n", "d", "i", "t", "i", "o", "n", " ", "P", "o", "i", "s", "o", "n", "e", "d", "|", "X", "P", "H", "B", "}", " ", "f", "o", "r", " ", "1", " ", "m", "i", "n", "u", "t", "e">>),
                            Dict("type" :> Str(<<"e", "n", "t", "r", "i", "e", "s">>)
                                 @@ "entries" :> List(<<Str(<<"{", "@", "c", "o", "n", "d", "i",
                                                              "t", "i", "o", "n", " ", "S", "t", "u", "n", "n", "e", "d", "}">>)>>))>>)}}
EntityLists ==
    {List(<<entity>>) : entity \in Entities}
    \cup {List(<<>>), List(<<Str(<<"x">>)>>)}
    \cup {List(<<first, second>>) :
            first \in {e \in Entities : Has(e, "name") /\ Has(e, "source")},
            second \in {e \in Entities : Has(e, "entries") /\ ~Has(e, "source")}}

\* the items of items_extracted.json before the normalization scripts
TypeCodes ==
    {Absent, Null, Str(<<>>), Str(<<"M">>), Str(<<"$", "G">>), Str(<<"$">>), Str(<<"$", "$",
                                                                                   "G">>), IntV(1)}
TypedItems ==
    {Present([name |-> Str(<<"D", "a", "g", "g", "e", "r">>), type |-> code,
                             is_generic_variant |-> flag]) :
        code \in TypeCodes, flag \in {Absent, Bool(TRUE)}}
TypedItemLists ==
    {List(<<item>>) : item \in TypedItems}
    \cup {List(<<>>), List(<<Null>>)}
    \cup {List(<<Present([name |-> Str(<<"D", "a", "g", "g", "e", "r">>), type |-> first]),
                 Present([name |-> Str(<<"S", "h", "i", "e", "l", "d">>), type |-> second])>>) :
            first \in {Str(<<"$", "G">>), Str(<<"M">>)}, second \in {Absent, Str(<<"$", "A">>),
                                                                                   Null}}

Bonuses ==
    {Absent, Null, Str(<<"+", "1">>), Str(<<"3">>), Str(<<" ", "+", "2", " ">>), Str(<<"-",
                                                                                       "1">>), Str(<<"+", "+", "2">>),
     Str(<<"+", " ", "1">>), Str(<<"1", ".", "5">>), Str(<<"x">>), Str(<<>>), IntV(2), IntV(0),
                                                                         Float(3, 2),
     Bool(TRUE), List(<<IntV(1)>>)}
BonusItems ==
    {Present([name |-> name, bonusWeapon |-> weapon, bonusAbilityCheck |-> check]) :
        name \in {Str(<<"D", "a", "g", "g", "e", "r">>), Absent}, weapon \in Bonuses,
        check \in {Absent, Str(<<"+", "1">>)}}
BonusItemLists ==
    {List(<<item>>) : item \in BonusItems}
    \cup {List(<<Present([name |-> Str(<<"D", "a", "g", "g", "e", "r">>), bonusAc |-> first]),
                 Present([name |-> Str(<<"S", "h", "i", "e", "l", "d">>), bonusAc |-> second,
                          bonusSavingThrow |-> second])>>) :
            first \in {Str(<<"+", "1">>), IntV(1), Absent}, second \in {Str(<<"+", "2">>),
                                                                              Str(<<"x">>)}}

\* the files validate_extraction.py reads
ExtractedItems ==
    {Present([name |-> name, base_name |-> base, variant_name |-> variant,
              container_type |-> Null, default_quantity |-> Null, bonus_display |-> Null,
              type |-> code, is_generic_variant |-> flag,
              bonusWeapon |-> weapon, bonusAbilityCheck |-> check]) :
        name \in {Str(<<"D", "a", "g", "g", "e", "r">>), Str(<<"{", "@", "i", "t", "e", "m", " ",
                                                               "D", "a", "g", "g", "e", "r", "}">>), Absent},
        base \in {Str(<<"D", "a", "g", "g", "e", "r">>), Absent}, variant \in {Null, Absent},
        code \in {Str(<<"M">>), Str(<<"$", "G">>), Absent}, flag \in {Bool(FALSE), Absent},
        weapon \in {Absent, IntV(1), Str(<<"+", "1">>)}, check \in {Absent, IntV(1), Str(<<"x">>)}}
Valid == Present([name |-> Str(<<"S", "h", "i", "e", "l", "d">>), base_name |-> Str(<<"S", "h",
                                                                                      "i", "e", "l", "d">>),
                  variant_name |-> Null, container_type |-> Null, default_quantity |-> Null,
                  bonus_display |-> Null, type |-> Str(<<"S">>),
                  is_generic_variant |-> Bool(FALSE), bonusAc |-> IntV(2)])
ExtractedItemLists ==
    {List(<<item>>) : item \in ExtractedItems}
    \cup {List(<<item, Valid>>) : item \in {i \in ExtractedItems : ~Has(i, "bonusWeapon")}}
    \cup {List(<<Valid, item>>) : item \in {i \in ExtractedItems : ~Has(i, "bonusAbilityCheck")}}
    \cup {List(<<>>), List(<<Null>>),
          List(<<Present([name |-> Str(<<"D", "a", "g", "g", "e", "r">>),
                                         base_name |-> Str(<<"D", "a", "g", "g", "e", "r">>)]),
                 [Valid EXCEPT !.d["type"] = Str(<<"$", "A">>)]>>),
          List(<<[Valid EXCEPT !.d["name"] = Null]>>),
          List(<<[Valid EXCEPT !.d["name"] = List(<<Str(<<"{", "@">>)>>)]>>),
          List(<<[Valid EXCEPT !.d["bonusAc"] = Float(3, 2)]>>),
          List(<<[Valid EXCEPT !.d["bonusAc"] = Bool(TRUE)]>>),
          List(<<[Valid EXCEPT !.d["type"] = IntV(1)]>>)}
ValidFiles ==
    Dict("conditions_extracted.json" :> Dict("items" :> List(<<>>))
         @@ "damage_extracted.json" :> Dict("monster_attacks" :> List(<<>>))
         @@ "cross_refs_extracted.json" :> Dict("monster_to_item" :> List(<<>>)))
ExtractedFiles ==
    {ValidFiles}
    \cup {[ValidFiles EXCEPT !.d[f] = data] :
            f \in DOMAIN ValidFiles.d,
            data \in {Absent, Raise("JSONDecodeError"), List(<<>>), Dict("items" :> Null)}}
Named(name) == List(<<Present([name |-> name, source |-> Str(<<"M", "M">>)])>>)
Extracted ==
    {Dict("items" :> items @@ "monsters" :> Named(Str(<<"O", "r", "c">>))
          @@ "spells" :> Named(Str(<<"B", "a", "n", "e">>)) @@ "files" :> ValidFiles) :
        items \in ExtractedItemLists \cup {Absent}}
    \cup {Dict("items" :> List(<<Valid>>) @@ "monsters" :> monsters @@ "spells" :> spells
               @@ "files" :> files) :
            monsters \in {Named(Str(<<"O", "r", "c">>)), Named(Str(<<"{", "@", "c", "r", "e",
                                                                     "a", "t", "u", "r", "e", " ", "O", "r", "c", "}">>)), List(<<>>)},
            spells \in {Named(Str(<<"B", "a", "n", "e">>)), Named(Str(<<"{", "@", "s", "p", "e",
                                                                        "l", "l", " ", "B", "a", "n", "e", "}">>)), Named(IntV(1))},
            files \in ExtractedFiles}

\* the datasets check_type_consistency is given
Ten == [i \in 1..SampleSize |-> IntV(i)]
FieldValues ==
    {IntV(1), Str(<<"x">>), Null,
     List(<<>>), List(<<IntV(1)>>), List(<<IntV(1), Str(<<"x">>)>>), List(Ten),
     List(Ten \o <<Str(<<"x">>)>>), List(Ten \o <<IntV(0)>>),
     List(<<Dict("k" :> IntV(1))>>), List(<<Dict("k" :> Str(<<"x">>))>>),
     List(<<List(<<IntV(1)>>)>>), List(<<List(<<Str(<<"x">>)>>)>>),
     Dict("k" :> IntV(1)), Dict("k" :> Str(<<"x">>)), Dict("k" :> List(<<IntV(1)>>)),
     Dict("k" :> List(<<Str(<<"x">>)>>))}
DataRecords ==
    {Dict("name" :> Str(<<"O", "r", "c">>) @@ "f" :> value) : value \in FieldValues}
    \cup {Dict("name" :> Str(<<"O", "r", "c">>))}
Datasets ==
    {List(<<>>)}
    \cup {List(<<first>>) : first \in DataRecords}
    \cup {List(<<first, second>>) : first \in DataRecords, second \in DataRecords}

Subjects ==
    {Input("dataset", data) : data \in Datasets}
    \cup {Input("extracted", extracted) : extracted \in Extracted}
    \cup {Input("items", items) : items \in TypedItemLists \cup BonusItemLists}
    \cup {Input("name", name) : name \in Names}
    \cup {Input("monster_name", name) : name \in MonsterNames}
    \cup {Input("text", text) : text \in Texts}
    \cup {Input("monsters", monsters) : monsters \in MonsterLists}
    \cup {Input("attack", text) : text \in AttackTexts}
    \cup {Input("entities", entities) : entities \in EntityLists}

----------------------------------------------------------------------------
(* The inputs of the import scripts *)

\* a database after the schema was created and the controlled vocabulary
\* imported: the tables of the types, sizes and properties hold a few rows,
\* and no item is imported yet
NoRows ==
    [items |-> <<>>, item_properties |-> <<>>, item_item_properties |-> {},
     item_conditions |-> {}, creature_types |-> <<>>, creature_sizes |-> <<>>]
Databases ==
    {[NoRows EXCEPT !.creature_types = types, !.creature_sizes = sizes,
                    !.item_properties = properties] :
        types \in {<<>>, <<<<"b", "e", "a", "s", "t">>>>}, sizes \in {<<>>, <<<<"M">>>>},
        properties \in {<<>>, <<<<"F">>>>}}

\* the records of cleaned_data/items_extracted.json
ItemProperties ==
    {Absent, Str(<<"F">>), List(<<>>), List(<<Str(<<"F">>), Str(<<"V", "|", "X", "P", "H",
                                                                  "B">>)>>),
     List(<<Str(<<"F">>), Null>>), List(<<Null>>), List(<<Str(<<"$">>), Str(<<"F">>)>>)}
ImportedItems ==
    {Present([k \in {"name", "source", "property"} |->
                CASE k = "name" -> name [] k = "source" -> source [] k = "property" -> property]) :
        name \in {Str(<<"D", "a", "g", "g", "e", "r">>), Str(<<"B", "o", "w">>)},
                                                               source \in {Str(<<"P", "H", "B">>)},
        property \in ItemProperties}
    \cup {Present([k \in {"name", "source"} |-> IF k = "name" THEN name ELSE source]) :
            name \in {Str(<<"D", "a", "g", "g", "e", "r">>), Absent},
            source \in {Absent, Str(<<"X", "X">>), IntV(1), Str(<<"p", "h", "b">>)}}

\* the records of item_conditions of conditions_extracted.json
ImportedConditions ==
    {Present([k \in {"item_name", "source", "condition"} |->
                CASE k = "item_name" -> Str(<<"D", "a", "g", "g", "e", "r">>)
                  [] k = "source" -> source
                  [] k = "condition" -> condition]) :
        source \in {Str(<<"P", "H", "B">>), Absent}, condition \in {Str(<<"p", "o", "i", "s",
                                                                          "o", "n", "e", "d">>), Str(<<"d", "a", "z", "e", "d">>), Null}}
ImportedConditionLists ==
    {<<>>} \cup {<<c>> : c \in ImportedConditions}
    \cup {<<c, d>> : c \in {x \in ImportedConditions : Has(x, "source")}, d \in ImportedConditions}

\* the names of creature types and the size codes looked up
CreatureTypes == {Str(<<"b", "e", "a", "s", "t">>), Str(<<"F", "i", "e", "n", "d">>)}
CreatureSizes == {Str(<<"M">>), Str(<<"t">>)}

----------------------------------------------------------------------------
(* One input through a function of the extraction phase *)

InitExtract ==
    /\ applied = "none"
    /\ subject \in Subjects
    /\ produced = NotRun
    /\ again = NotRun
    /\ stored = NotRun
    /\ disk = Absent /\ IdleClean /\ IdleCleanAll /\ IdlePipeline
    /\ IdleTools

\* extract_monster_names: the body of the loop, for one monster
ExtractMonsterNames ==
    /\ applied = "none"
    /\ subject.kind = "monster_name"
    /\ applied' = "extract_monster_names"
    /\ produced' = extract_monster_names(subject.v)
    /\ UNCHANGED <<subject, again, stored, disk, cleanVars, cleanAllVars, pipeVars, toolVars>>

\* name_parts = parse_item_name(item["name"])
ParseItemName ==
    /\ applied = "none"
    /\ subject.kind = "name"
    /\ applied' = "parse_item_name"
    /\ produced' = parse_item_name(subject.v)
    /\ UNCHANGED <<subject, again, stored, disk, cleanVars, cleanAllVars, pipeVars, toolVars>>

\* conditions = extract_conditions_from_text(text)
ExtractConditionsFromText ==
    /\ applied = "none"
    /\ subject.kind = "text"
    /\ applied' = "extract_conditions_from_text"
    /\ produced' = extract_conditions_from_text(subject.v)
    /\ UNCHANGED <<subject, again, stored, disk, cleanVars, cleanAllVars, pipeVars, toolVars>>

\* item_conditions = extract_item_conditions(items)
ExtractItemConditions ==
    /\ applied = "none"
    /\ subject.kind = "entities"
    /\ applied' = "extract_item_conditions"
    /\ produced' = extract_item_conditions(subject.v.items)
    /\ UNCHANGED <<subject, again, stored, disk, cleanVars, cleanAllVars, pipeVars, toolVars>>

\* spell_conditions = extract_spell_conditions(spells)
ExtractSpellConditions ==
    /\ applied = "none"
    /\ subject.kind = "entities"
    /\ applied' = "extract_spell_conditions"
    /\ produced' = extract_spell_conditions(subject.v.items)
    /\ UNCHANGED <<subject, again, stored, disk, cleanVars, cleanAllVars, pipeVars, toolVars>>

\* monster_conditions = extract_monster_conditions(monsters)
ExtractMonsterConditions ==
    /\ applied = "none"
    /\ subject.kind = "monsters"
    /\ applied' = "extract_monster_conditions"
    /\ produced' = extract_monster_conditions(subject.v.items)
    /\ UNCHANGED <<subject, again, stored, disk, cleanVars, cleanAllVars, pipeVars, toolVars>>

\* attack_data = extract_monster_attack(monster_name, source, ability_name, text)
ExtractMonsterAttack ==
    /\ applied = "none"
    /\ subject.kind = "attack"
    /\ applied' = "extract_monster_attack"
    /\ produced' = extract_monster_attack(Str(<<"O", "r", "c">>), Str(<<"M", "M">>), Str(<<"C",
                                                                                           "l", "a", "w">>), subject.v)
    /\ UNCHANGED <<subject, again, stored, disk, cleanVars, cleanAllVars, pipeVars, toolVars>>

\* monster_damage = extract_monster_damage(monsters)
ExtractMonsterDamage ==
    /\ applied = "none"
    /\ subject.kind = "monsters"
    /\ applied' = "extract_monster_damage"
    /\ produced' = extract_monster_damage(subject.v.items)
    /\ UNCHANGED <<subject, again, stored, disk, cleanVars, cleanAllVars, pipeVars, toolVars>>

\* monster_refs = extract_monster_references(monsters)
ExtractMonsterReferences ==
    /\ applied = "none"
    /\ subject.kind = "monsters"
    /\ applied' = "extract_monster_references"
    /\ produced' = extract_monster_references(subject.v.items)
    /\ UNCHANGED <<subject, again, stored, disk, cleanVars, cleanAllVars, pipeVars, toolVars>>

\* import_monster_attacks(conn, damage['monster_attacks'], stats), into an empty table
ImportMonsterAttacks ==
    /\ applied = "extract_monster_damage"
    /\ produced.t = "list"
    /\ applied' = "import_monster_attacks"
    /\ stored' = import_monster_attacks(NoneStored, produced.items)
    /\ UNCHANGED <<subject, produced, again, disk, cleanVars, cleanAllVars, pipeVars, toolVars>>

\* main of normalize_type_codes.py, run on items_extracted.json
NormalizeTypeCodes ==
    /\ applied = "none"
    /\ subject.kind = "items"
    /\ applied' = "normalize_type_codes"
    /\ produced' = normalize_type_codes(subject.v.items)
    /\ UNCHANGED <<subject, again, stored, disk, cleanVars, cleanAllVars, pipeVars, toolVars>>

\* main of normalize_type_codes.py, run once more on the file it wrote
NormalizeTypeCodesAgain ==
    /\ applied = "normalize_type_codes"
    /\ produced.t = "list"
    /\ again = NotRun
    /\ again' = normalize_type_codes(produced.items)
    /\ UNCHANGED <<applied, subject, produced, stored, disk, cleanVars, cleanAllVars, pipeVars,
                   toolVars>>

\* main of normalize_bonuses.py, run on items_extracted.json
NormalizeBonuses ==
    /\ applied = "none"
    /\ subject.kind = "items"
    /\ applied' = "normalize_bonuses"
    /\ produced' = normalize_bonuses(subject.v.items)
    /\ UNCHANGED <<subject, again, stored, disk, cleanVars, cleanAllVars, pipeVars, toolVars>>

\* main of validate_extraction.py, run on the extracted files
ValidateExtraction ==
    /\ applied = "none"
    /\ subject.kind = "extracted"
    /\ applied' = "validate_extraction"
    /\ produced' = validation_main(subject.v.d["items"], subject.v.d["monsters"],
                                   subject.v.d["spells"], subject.v.d["files"])
    /\ UNCHANGED <<subject, again, stored, disk, cleanVars, cleanAllVars, pipeVars, toolVars>>

\* main of extract_all.py once its last script, validate_extraction.py, has ended
ExtractAll ==
    /\ applied = "validate_extraction"
    /\ applied' = "extract_all"
    /\ produced' = IntV(extract_all(ExitStatus(produced)))
    /\ UNCHANGED <<subject, again, stored, disk, cleanVars, cleanAllVars, pipeVars, toolVars>>

\* results['items'] = check_type_consistency(items, 'items')
CheckTypeConsistency ==
    /\ applied = "none"
    /\ subject.kind = "dataset"
    /\ applied' = "check_type_consistency"
    /\ produced' = check_type_consistency(subject.v, "items")
    /\ UNCHANGED <<subject, again, stored, disk, cleanVars, cleanAllVars, pipeVars, toolVars>>

NextExtract ==
    \/ CheckTypeConsistency
    \/ ValidateExtraction
    \/ ExtractAll
    \/ NormalizeBonuses
    \/ NormalizeTypeCodes
    \/ NormalizeTypeCodesAgain
    \/ ParseItemName
    \/ ExtractMonsterNames
    \/ ExtractConditionsFromText
    \/ ExtractItemConditions
    \/ ExtractSpellConditions
    \/ ExtractMonsterConditions
    \/ ExtractMonsterAttack
    \/ ExtractMonsterDamage
    \/ ExtractMonsterReferences
    \/ ImportMonsterAttacks

SpecExtract == InitExtract /\ [][NextExtract]_vars

----------------------------------------------------------------------------
(* The import scripts, run one after the other on one database: the calls    *)
(* they make on their connection.  stats is the ImportStats of the routine   *)
(* that ran last.                                                            *)

\* the calls of one run
MaxCalls == 2

InitImport ==
    /\ database \in Databases
    /\ pending = database
    /\ lookupCache = NoCache
    /\ stats = ImportStats
    /\ called = [fn |-> "none", arg |-> Null, returned |-> Null, n |-> 0]
    /\ disk = Absent /\ IdleClean /\ IdleCleanAll /\ IdlePipeline /\ IdleExtract
    /\ IdleValidate /\ IdleExtractAll

\* the state of the process before a call
Process ==
    [database |-> database, pending |-> pending, lookupCache |-> lookupCache, stats |-> stats,
     returned |-> Null]

\* the call fn(arg) took the process to the state t
Call(fn_name, arg, t) ==
    /\ called.n < MaxCalls
    /\ database' = t.database
    /\ pending' = t.pending
    /\ lookupCache' = t.lookupCache
    /\ stats' = t.stats
    /\ called' = [fn |-> fn_name, arg |-> arg, returned |-> t.returned, n |-> called.n + 1]
    /\ UNCHANGED <<disk, cleanVars, cleanAllVars, pipeVars, extractVars, validateVars,
                   extractAllVars>>

\* import_items.main: import_item(conn, item, stats) for a record of the file;
\* the records of the file have names that differ
ImportItem ==
    \E item \in ImportedItems :
        /\ \A i \in 1..Len(pending.items) : pending.items[i].name # Get(item, "name")
        /\ Call("import_item", item, import_item(Process, item))

\* import_extracted_data.main: stats_items_cond = ImportStats();
\* import_item_conditions(conn, conditions['items'], stats_items_cond)
ImportItemConditions ==
    \E conditions \in ImportedConditionLists :
        Call("import_item_conditions", List(conditions),
             import_item_conditions([Process EXCEPT !.stats = ImportStats], conditions))

LookupCreatureType ==
    \E creature_type \in CreatureTypes :
        Call("lookup_creature_type", creature_type, lookup_creature_type(Process, creature_type))

LookupCreatureSize ==
    \E size_code \in CreatureSizes :
        Call("lookup_creature_size", size_code, lookup_creature_size(Process, size_code))

LookupOrCreateCreatureType ==
    \E type_name \in CreatureTypes :
        Call("lookup_or_create_creature_type", type_name,
             lookup_or_create_creature_type(Process, type_name))

LookupOrCreateCreatureSize ==
    \E size_code \in CreatureSizes :
        Call("lookup_or_create_creature_size", size_code,
             lookup_or_create_creature_size(Process, size_code))

NextImport ==
    \/ ImportItem
    \/ ImportItemConditions
    \/ LookupCreatureType
    \/ LookupCreatureSize
    \/ LookupOrCreateCreatureType
    \/ LookupOrCreateCreatureSize

SpecImport == InitImport /\ [][NextImport]_vars

----------------------------------------------------------------------------
(* extract_all.py, script by script *)

\* main: pipeline, the scripts in the order they are run
pipeline ==
    <<"extract_names.py", "normalize_bonuses.py", "normalize_type_codes.py",
      "extract_conditions.py", "extract_damage.py", "extract_cross_refs.py",
      "validate_extraction.py">>

\* what a script's process can end with: 0, the status of sys.exit or of an
\* exception that is not caught, or the negative number of a signal
ExitStatuses == {0, 1, 2, -9}

\* the files validate_extraction.py is going to find are in subject
InitExtractAll ==
    /\ pcExtractAll = 1
    /\ started = <<>>
    /\ returnCode = NotRun
    /\ applied = "none"
    /\ subject \in {Input("extracted", extracted) : extracted \in Extracted}
    /\ produced = NotRun /\ again = NotRun /\ stored = NotRun
    /\ disk = Absent /\ IdleClean /\ IdleCleanAll /\ IdlePipeline
    /\ IdleValidate /\ IdleImport

\* the exit status of validate_extraction.py on the files it finds
ValidationStatus ==
    ExitStatus(validation_main(subject.v.d["items"], subject.v.d["monsters"],
                               subject.v.d["spells"], subject.v.d["files"]))

\* main: one round of for script_name, description in pipeline: the script is
\* run to its end, and a script that did not succeed ends main with return 1
RunNextScript ==
    /\ pcExtractAll \in 1..Len(pipeline)
    /\ \E status \in (IF pipeline[pcExtractAll] = "validate_extraction.py"
                      THEN {ValidationStatus} ELSE ExitStatuses) :
          /\ started' = Append(started, [script |-> pipeline[pcExtractAll], status |-> status])
          /\ IF ~Succeeded(status)
             THEN pcExtractAll' = 0 /\ returnCode' = IntV(1)
             ELSE pcExtractAll' = pcExtractAll + 1 /\ UNCHANGED returnCode
    /\ UNCHANGED <<disk, cleanVars, cleanAllVars, pipeVars, extractVars, validateVars, importVars>>

\* main: the loop ended, every script succeeded: the summary and return 0
PipelineComplete ==
    /\ pcExtractAll = Len(pipeline) + 1
    /\ pcExtractAll' = 0
    /\ returnCode' = IntV(0)
    /\ UNCHANGED <<started, disk, cleanVars, cleanAllVars, pipeVars, extractVars, validateVars,
                   importVars>>

NextExtractAll == RunNextScript \/ PipelineComplete

SpecExtractAll == InitExtractAll /\ [][NextExtractAll]_vars

----------------------------------------------------------------------------
(* Claims about the extraction phase (SpecExtract) *)

\* the name without its tags and without a leading "+N " prefix
Unprefixed(name) == LeadingBonus(strip_markup(name.s)).rest
\* the name ends in exactly one parenthetical group
EndsInOneGroup(s) ==
    /\ s # <<>> /\ s[Len(s)] = ")"
    /\ Cardinality({i \in 1..Len(s) : s[i] \in {"(", ")"}}) = 2
    /\ \E i \in 1..(Len(s) - 1) : s[i] = "("
\* what stands before the group, and inside it
BeforeGroup(s) == Strip(SubSeq(s, 1, FirstAt(s, "(", 1) - 1))
InGroup(s) == Strip(SubSeq(s, FirstAt(s, "(", 1) + 1, Len(s) - 1))

\* C11: parse_item_name returns the five components for every name; a leading
\* "+N " prefix becomes bonus_display; the content of the one trailing group
\* is the quantity when it is an integer, else the bonus when it is "+N", else
\* the container when it is a container word, else the variant; a name with
\* neither prefix nor group gives base_name = the name without tags and no
\* other component.
NameDecomposition ==
    applied = "parse_item_name" =>
        LET clean == strip_markup(subject.v.s)
            prefix == LeadingBonus(clean)
            rest == Unprefixed(subject.v)
            part(k) == produced.d[k]
        IN /\ ~IsRaise(produced)
           /\ DOMAIN produced.d = {"base_name", "variant_name", "container_type",
                                   "default_quantity", "bonus_display"}
           /\ prefix.matched /\ ~EndsInOneGroup(rest) => part("bonus_display") = Str(prefix.bonus)
           /\ EndsInOneGroup(rest) =>
                 /\ part("base_name") = Str(BeforeGroup(rest))
                 /\ IF IsDigits(InGroup(rest))
                    THEN part("default_quantity") = IntV(DigitsVal(InGroup(rest)))
                    ELSE IF IsBonus(InGroup(rest))
                    THEN part("bonus_display") = Str(InGroup(rest))
                    ELSE IF Lower(InGroup(rest)) \in containers
                    THEN part("container_type") = Str(Lower(InGroup(rest)))
                    ELSE part("variant_name") = Str(InGroup(rest))
           /\ ~prefix.matched /\ ~EndsInOneGroup(rest) =>
                 produced = NameParts(Str(clean), Null, Null, Null, Null)

\* the references of a text, when the subject is a text that was scanned
Scanned == applied = "extract_conditions_from_text" /\ subject.v.t = "str"
\* an immunity keyword lies wholly within the 100 characters that precede start
KeywordJustBefore(text, start) ==
    \E k \in {<<"i", "m", "m", "u", "n", "e", " ", "t", "o">>, <<"i", "m", "m", "u", "n", "i",
                                                                 "t", "y", " ", "t", "o">>,
 <<"c", "a", "n", "'", "t", " ", "b", "e">>, <<"c", "a", "n", "n", "o", "t", " ", "b", "e">>,
               <<"a", "d", "v", "a", "n", "t", "a", "g", "e", " ", "o", "n", " ", "s", "a", "v",
                 "i", "n", "g", " ", "t", "h", "r", "o", "w", "s", " ", "a", "g", "a", "i", "n", "s", "t">>, <<"a", "d", "v", "a", "n", "t", "a", "g", "e", " ", "o", "n", " ", "s", "a", "v", "e", "s", " ", "a", "g", "a", "i", "n", "s", "t">>} :
        \E p \in 0..start :
            /\ start - 100 <= p /\ p + Len(k) <= start
            /\ LowerText(Slice(text, p, p + Len(k))) = k

\* C12: every tag found in a text is reported with inflicts = true unless an
\* immunity keyword occurs, in any letter case, within the 100 characters
\* immediately before the tag, and then with inflicts = false; a keyword after
\* the tag or further before it does not change the polarity.
TagPolarity ==
    Scanned =>
        LET tags == FindTags(subject.v.s, 0)
        IN /\ Len(produced.items) = Len(tags)
           /\ \A i \in 1..Len(tags) :
                 produced.items[i].d["inflicts"]
                     = Bool(~KeywordJustBefore(subject.v.s, tags[i].start))

\* a tag reported as granting immunity, in a text longer than the stretch read
TagPolarityWitness ==
    /\ Scanned /\ Len(subject.v.s) > 100
    /\ \E i \in 1..Len(produced.items) : produced.items[i].d["inflicts"] = Bool(FALSE)

\* the tagged forms {@dc n} and the plain forms "DC n" a text holds: where each
\* starts and ends, and its value
DcForm(text, pos, lead) ==
    [from |-> pos, to |-> pos + lead + RunIn(text, pos + lead, Digits) + (IF lead = 5 THEN 1 ELSE 0),
     value |-> DigitsVal(Slice(text, pos + lead, pos + lead + RunIn(text, pos + lead, Digits)))]
TaggedForms(text) ==
    {DcForm(text, pos, 5) : pos \in {p \in 0..Len(text) :
        /\ StartsAt(text, p, <<"{", "@", "d", "c", " ">>) /\ RunIn(text, p + 5, Digits) >= 1
        /\ StartsAt(text, p + 5 + RunIn(text, p + 5, Digits), <<"}">>)}}
PlainForms(text) ==
    {DcForm(text, pos, 3) : pos \in {p \in 0..Len(text) :
        /\ Boundary(text, p) /\ StartsAt(text, p, <<"D", "C", " ">>) /\ RunIn(text, p + 3,
                                                    Digits) >= 1
        /\ Boundary(text, p + 3 + RunIn(text, p + 3, Digits))}}
\* the forms that lie within the 200 characters before and after a tag
Within(forms, tag) == {f \in forms : tag.start - 200 <= f.from /\ f.to <= tag.end + 200}
FirstOf(forms) == CHOOSE f \in forms : \A g \in forms : f.from <= g.from

\* C13: the save_dc of a reference is the value of the first tagged form
\* {@dc n} within the 200 characters before and after its tag when there is one
\* (even after a plain "DC m"), else the value of the first plain "DC n" there,
\* else null; a DC written only outside that window is not reported.
SaveDcInWindow ==
    Scanned =>
        LET tags == FindTags(subject.v.s, 0)
        IN \A i \in 1..Len(tags) :
              LET tagged == Within(TaggedForms(subject.v.s), tags[i])
                  plain == Within(PlainForms(subject.v.s), tags[i])
              IN produced.items[i].d["save_dc"] =
                    IF tagged # {} THEN IntV(FirstOf(tagged).value)
                    ELSE IF plain # {} THEN IntV(FirstOf(plain).value)
                    ELSE Null

\* the well-formed condition tags of a text, {@condition name} and
\* {@condition name|source} with no brace or bar inside a part: where each
\* starts and the name it holds
WellFormedAt(text, p) ==
    LET name == RunNotIn(text, p + 12, {"{", "}", "|"})
        source == RunNotIn(text, p + 13 + name, {"{", "}", "|"})
    IN /\ StartsAt(text, p, <<"{", "@", "c", "o", "n", "d", "i", "t", "i", "o", "n",
                              " ">>) /\ name >= 1
       /\ \/ StartsAt(text, p + 12 + name, <<"}">>)
          \/ /\ StartsAt(text, p + 12 + name, <<"|">>) /\ source >= 1
             /\ StartsAt(text, p + 13 + name + source, <<"}">>)
WellFormedTags(text) == {p \in 0..Len(text) : WellFormedAt(text, p)}
TagName(text, p) == Slice(text, p + 12, p + 12 + RunNotIn(text, p + 12, {"{", "}", "|"}))
\* the text gives a tag nothing to read a DC, a save, a duration or an immunity from
NoContext(text) ==
    \A p \in 0..Len(text) :
        \A word \in {<<"d", "c", " ">>, <<"s", "a", "v">>, <<"f", "o", "r", " ">>, <<"u", "n",
                                                                                     "t", "i", "l", " ">>, <<"i", "m", "m", "u", "n">>, <<"c", "a", "n">>, <<"a", "d", "v", "a", "n", "t", "a", "g", "e">>} :
            ~StartsAtFold(text, p, word)
\* the p-th smallest element of a set of numbers
RECURSIVE Ranked(_, _)
Ranked(S, i) == IF i = 1 THEN Least(S) ELSE Ranked(S \ {Least(S)}, i - 1)

\* C14: the scan of condition tags returns a list and never raises, for values
\* that are not strings, for texts with unterminated or malformed tags and for
\* monsters whose section lists are null or hold elements that are not records;
\* an unterminated or malformed tag gives no reference, and every well-formed
\* tag gives exactly one, which in a text without DC, save, duration or immunity
\* wording carries the lower-cased name, inflicts = true and null for save_dc,
\* save_ability and duration_text.
TagScanDegrades ==
    /\ applied \in {"extract_conditions_from_text", "extract_monster_conditions"} =>
          produced.t = "list"
    /\ applied = "extract_conditions_from_text" /\ subject.v.t # "str" => produced = List(<<>>)
    /\ Scanned =>
          LET tags == WellFormedTags(subject.v.s)
          IN /\ Len(produced.items) = Cardinality(tags)
             /\ \A i \in 1..Cardinality(tags) :
                   LET reference == produced.items[i].d
                   IN /\ reference["condition"]
                            = Str(LowerText(Strip(TagName(subject.v.s, Ranked(tags, i)))))
                      /\ NoContext(subject.v.s) =>
                            /\ reference["inflicts"] = Bool(TRUE)
                            /\ reference["save_dc"] = Null
                            /\ reference["save_ability"] = Null
                            /\ reference["duration_text"] = Null

\* the attack texts of the monsters, in the order they are read: the texts of
\* the abilities of the four sections that hold an {@atk ..} tag
AttackTextsOfMonster(monster) ==
    Concat([f \in 1..4 |->
        LET key == <<"action", "bonus", "legendary", "reaction">>[f]
            section == IF Has(monster, key) THEN monster.d[key].items ELSE <<>>
        IN Concat([a \in 1..Len(section) |->
              SelectSeq(extract_from_entries(GetOr(section[a], "entries", Null)),
                        LAMBDA text : FindMarks(text.s, 0, <<"{", "@", "a", "t", "k",
                                                             " ">>) # <<>>)])])
AttackTextsOf(monsters) ==
    Concat([m \in 1..Len(monsters) |-> AttackTextsOfMonster(monsters[m])])
\* the attack facts were emitted (and perhaps stored since)
AttacksEmitted ==
    /\ applied \in {"extract_monster_damage", "import_monster_attacks"}
    /\ produced.t = "list"
\* the number of secondary damage expressions of a fact
Secondaries(fact) == Len(fact.d["additional_damage"].items)
\* the stored row of a fact: the row of its monster and action, when the fact is
\* the first one emitted for that monster and action
RowsOf(facts, i) ==
    LET id(j) == lookup_monster_by_name_source(facts[j].d["monster_name"], facts[j].d["source"])
    IN IF \E j \in 1..(i - 1) :
             id(j) = id(i) /\ facts[j].d["action_name"] = facts[i].d["action_name"]
       THEN {}
       ELSE {row \in {stored.rows[r] : r \in 1..Len(stored.rows)} :
               row.monster_id = id(i) /\ row.action_name = facts[i].d["action_name"]}
\* the row keeps the first secondary expression of the fact
KeepsFirstSecondary(row, fact) ==
    LET first == fact.d["additional_damage"].items[1].d
    IN /\ row.extra_damage_dice = first["damage_dice"]
       /\ row.extra_damage_bonus = first["damage_bonus"]
       /\ IF first["damage_type"] = Null THEN row.extra_damage_type_id = Null
          ELSE /\ row.extra_damage_type_id # Null
               /\ Str(DAMAGE_TYPES[row.extra_damage_type_id.v]) = first["damage_type"]
SecondaryStored ==
    applied = "import_monster_attacks" =>
        \A i \in 1..Len(produced.items) :
            Secondaries(produced.items[i]) > 1 =>
                \A row \in RowsOf(produced.items, i) :
                    KeepsFirstSecondary(row, produced.items[i])

\* C16 as stated: the stored row of an attack fact with more than one secondary
\* damage expression keeps exactly the first one (dice, bonus, type), and every
\* emitted attack fact carries the complete text it was read from.
SecondaryDamageStated ==
    /\ SecondaryStored
    /\ AttacksEmitted =>
          LET texts == AttackTextsOf(subject.v.items)
          IN /\ Len(produced.items) = Len(texts)
             /\ \A i \in 1..Len(texts) :
                   /\ Has(produced.items[i], "full_text")
                   /\ produced.items[i].d["full_text"] = texts[i]

\* C16, amended: the stored row of an attack fact with more than one secondary
\* damage expression keeps exactly the first one (dice, bonus, type), and every
\* emitted attack fact whose text holds a damage expression carries the
\* complete text it was read from; a fact of a text without one carries no text.
SecondaryDamage ==
    /\ SecondaryStored
    /\ AttacksEmitted =>
          LET texts == AttackTextsOf(subject.v.items)
          IN /\ Len(produced.items) = Len(texts)
             /\ \A i \in 1..Len(texts) :
                   IF FindMarks(texts[i].s, 0, <<"{", "@", "d", "a", "m", "a", "g", "e",
                                                 " ">>) # <<>>
                   THEN /\ Has(produced.items[i], "full_text")
                        /\ produced.items[i].d["full_text"] = texts[i]
                   ELSE ~Has(produced.items[i], "full_text")

\* an attack with two secondary expressions was stored, its text kept
SecondaryDamageWitness ==
    /\ applied = "import_monster_attacks"
    /\ \E i \in 1..Len(produced.items) :
          /\ Secondaries(produced.items[i]) > 1
          /\ RowsOf(produced.items, i) # {}
          /\ Has(produced.items[i], "full_text")

\* the facts a function of the extraction phase emitted, each with the keys its
\* subject is written under
EmittedFacts ==
    CASE applied = "extract_item_conditions" /\ produced.t = "list" ->
            {[fact |-> produced.items[i], name |-> "item_name", source |-> "source"] :
                i \in 1..Len(produced.items)}
      [] applied = "extract_spell_conditions" /\ produced.t = "list" ->
            {[fact |-> produced.items[i], name |-> "spell_name", source |-> "source"] :
                i \in 1..Len(produced.items)}
      [] applied \in {"extract_monster_conditions", "extract_monster_damage"}
           /\ produced.t = "list" ->
            {[fact |-> produced.items[i], name |-> "monster_name", source |-> "source"] :
                i \in 1..Len(produced.items)}
      [] applied = "extract_monster_references" /\ produced.t = "dict" ->
            UNION {{[fact |-> produced.d[k].items[i], name |-> "monster_name",
                     source |-> "monster_source"] : i \in 1..Len(produced.d[k].items)} :
                   k \in DOMAIN produced.d}
      [] OTHER -> {}
\* the (name, source) pairs of the entities read
EntitySubjects ==
    {<<entity.d["name"], entity.d["source"]>> :
        entity \in {subject.v.items[i] : i \in {j \in 1..Len(subject.v.items) :
                        /\ subject.v.items[j].t = "dict"
                        /\ Has(subject.v.items[j], "name")
                        /\ Has(subject.v.items[j], "source")}}}

\* C15: every condition, damage and cross-reference fact emitted carries the
\* (name, source) pair of an entity of the artifact it was extracted from; no
\* fact carries a placeholder that is the name or the source of no entity.
FactSubjects ==
    \A e \in EmittedFacts : <<e.fact.d[e.name], e.fact.d[e.source]>> \in EntitySubjects

----------------------------------------------------------------------------
(* C17 *)

StartsWithDollar(value) == value.t = "str" /\ value.s # <<>> /\ Head(value.s) = "$"

\* the (code, flag) pair of an item; Absent for a key the item does not hold
PairOf(item) == <<GetOr(item, "type", Absent), GetOr(item, "is_generic_variant", Absent)>>

\* the pair the marker rule gives an item
MarkerPair(item) ==
    IF StartsWithDollar(GetOr(item, "type", Absent))
    THEN <<Str(Tail(item.d["type"].s)), Bool(TRUE)>>
    ELSE <<GetOr(item, "type", Absent), Bool(FALSE)>>

\* C17: normalize_type_code maps a code with a leading '$' to (code without the
\* marker, is_generic_variant true) and any other or missing code to (unchanged
\* code, false); once every item went through it no code starts with '$' and every
\* item has the flag; going through it once more changes neither code nor flag.
GenericVariantMarker ==
    applied = "normalize_type_codes" =>
        /\ produced.t = "list"
        /\ Len(produced.items) = Len(subject.v.items)
        /\ \A i \in 1..Len(produced.items) :
              /\ PairOf(produced.items[i]) = MarkerPair(subject.v.items[i])
              /\ ~StartsWithDollar(GetOr(produced.items[i], "type", Absent))
              /\ Has(produced.items[i], "is_generic_variant")
        /\ again # NotRun => again = produced

----------------------------------------------------------------------------
(* C18 *)

\* C18: once normalize_item_bonuses has run over the items, every bonus field that
\* an item holds is an integer, whatever it held before.
BonusFieldsIntegers ==
    applied = "normalize_bonuses" =>
        /\ produced.t = "list"
        /\ \A i \in 1..Len(produced.items) : \A f \in 1..Len(BONUS_FIELDS) :
              Has(produced.items[i], BONUS_FIELDS[f])
                  => IsInstanceInt(produced.items[i].d[BONUS_FIELDS[f]])

----------------------------------------------------------------------------
(* C19 *)

Decomposition ==
    {"base_name", "variant_name", "container_type", "default_quantity", "bonus_display"}

\* an entity-level invariant that item violates
BonusNotInteger(item) ==
    \E f \in 1..Len(BONUS_FIELDS) :
        Has(item, BONUS_FIELDS[f]) /\ ~IsInstanceInt(item.d[BONUS_FIELDS[f]])
MarkerLeft(item) == StartsWithDollar(GetOr(item, "type", Absent))
MarkupLeft(item) == HasMarkup(item) = Bool(TRUE)
Incomplete(item) == \E k \in Decomposition : ~Has(item, k)
Violating(item) ==
    item.t = "dict"
    /\ (BonusNotInteger(item) \/ MarkerLeft(item) \/ MarkupLeft(item) \/ Incomplete(item))

ViolatingItems ==
    IF subject.kind = "extracted" /\ subject.v.d["items"] # Absent
    THEN {i \in 1..Len(subject.v.d["items"].items) : Violating(subject.v.d["items"].items[i])}
    ELSE {}

\* C19: whenever an extracted item has a bonus field that is no integer, a type
\* code that starts with '$', a name with tag markup or an incomplete name
\* decomposition, validate_extraction ends with exit status 1 and extract_all
\* returns 1.
ValidatorDetects ==
    ViolatingItems # {} =>
        /\ applied = "validate_extraction" => ExitStatus(produced) = 1
        /\ applied = "extract_all" => produced = IntV(1)

----------------------------------------------------------------------------
(* C20 *)

\* the <<path, type name>> pairs of all the values below obj: the fields of
\* records, the elements of lists at every position, and what lies inside them
RECURSIVE PairsBelow(_, _)
PairsBelow(obj, path) ==
    IF obj.t = "dict" THEN
        UNION {LET new_path == IF path # "" THEN path \o "." \o key ELSE key
               IN {<<new_path, TypeName(obj.d[key])>>} \cup PairsBelow(obj.d[key], new_path)
               : key \in DOMAIN obj.d}
    ELSE IF obj.t = "list" THEN
        UNION {{<<path \o "[]", TypeName(obj.items[i])>>}
               \cup PairsBelow(obj.items[i], path \o "[]") : i \in 1..Len(obj.items)}
    ELSE {}

\* the field paths that hold values of more than one runtime type in data
MixedPaths(data) ==
    LET pairs == UNION {PairsBelow(data.items[i], "") : i \in 1..Len(data.items)}
    IN {p \in {pt[1] : pt \in pairs} :
            Cardinality({pt[2] : pt \in {q \in pairs : q[1] = p}}) > 1}

\* C20: check_type_consistency reports is_valid = false and lists the path
\* whenever a field path holds values of more than one runtime type in the
\* dataset, paths inside records nested in lists and list elements beyond the
\* tenth included; it reports is_valid = true only when every path has one type.
ValidatorComplete ==
    applied = "check_type_consistency" =>
        /\ MixedPaths(subject.v) \subseteq produced.polymorphic_fields
        /\ produced.is_valid <=> MixedPaths(subject.v) = {}

----------------------------------------------------------------------------
(* C21 (SpecPipeline) *)

Steps == {FullOrder[i] : i \in 1..Len(FullOrder)}

\* the statuses of the commands the step ran
StatusesOf(step) ==
    {phaseResults[i].status : i \in {j \in 1..Len(phaseResults) :
                                        phaseResults[j].phase \in PhaseNames(step)}}

\* the run has ended, or is about to, with a failure
ReturnsFailure == pc \in {"returned", "exited"} /\ returned \in {IntV(1), Bool(FALSE)}

\* C21: with --stop-on-warning, once a command of a phase or checkpoint has ended
\* with WARNING no later step is started and the run returns failure; without the
\* flag a step whose commands ended with WARNING and none FAILED does not stop
\* the run.
StopOnWarning ==
    args # Null /\ args.mode # "dry-run" =>
        /\ args.stop_on_warning =>
              \A i \in 1..Len(phaseResults) :
                  phaseResults[i].status = "warning" => ReturnsFailure
        /\ ~args.stop_on_warning =>
              \A i \in 1..Len(steps) :
                  /\ steps[i].step \in {"phase_0", "phase_0_5", "phase_0_6", "phase_1",
                                        "phase_2", "checkpoint_import", "phase_3"}
                  /\ "warning" \in StatusesOf(steps[i].step)
                  /\ "failed" \notin StatusesOf(steps[i].step)
                  => steps[i].outcome = "ok"

\* an issue of the severity is recorded in the validator's result
Recorded(severity) ==
    validation # Null /\ \E i \in 1..Len(validation.issues) : validation.issues[i].severity = severity
\* the code of the most severe recorded issue; INFO issues and passed checks have none
MostSevere ==
    IF Recorded("CRITICAL") THEN 1
    ELSE IF Recorded("MAJOR") THEN 2
    ELSE IF Recorded("MINOR") THEN 3
    ELSE 0
\* run_all_validations returned: each validation passed its check or recorded its issue
AllValidated ==
    /\ validation # Null
    /\ Len(validation.passed)
         + Cardinality({i \in 1..Len(validation.issues) : validation.issues[i].severity # "INFO"})
       = Len(validations)

HoldsMarker(s) == \E i \in 1..(Len(s) - 1) : s[i] = "{" /\ s[i + 1] = "@"

\* C23: strip_markup takes the tag markup out and keeps the referenced name:
\* "{@creature Aboleth|MM} Spawn" becomes "Aboleth Spawn" and
\* "{@item longsword|phb}" becomes "longsword", so that parse_monster_name gives
\* the first the base_name "Aboleth" and the variant_name "Spawn"; and the
\* stripped name of every input holds no "{@" marker.
MarkupKeepsName ==
    applied = "extract_monster_names" =>
        /\ subject.v = Str(<<"{", "@", "c", "r", "e", "a", "t", "u", "r", "e", " ", "A", "b",
                             "o", "l", "e", "t", "h", "|", "M", "M", "}", " ", "S", "p", "a", "w", "n">>) =>
              /\ produced.d["name"] = Str(<<"A", "b", "o", "l", "e", "t", "h", " ", "S", "p",
                                            "a", "w", "n">>)
              /\ produced.d["base_name"] = Str(<<"A", "b", "o", "l", "e", "t", "h">>)
              /\ produced.d["variant_name"] = Str(<<"S", "p", "a", "w", "n">>)
        /\ subject.v = Str(<<"{", "@", "i", "t", "e", "m", " ", "l", "o", "n", "g", "s", "w",
                             "o", "r", "d", "|", "p", "h", "b", "}">>) => produced.d["name"] = Str(<<"l", "o", "n", "g", "s", "w", "o", "r", "d">>)
        /\ ~HoldsMarker(produced.d["name"].s)

\* the step is a call of the function
Calls(fn_name) == called'.n = called.n + 1 /\ called'.fn = fn_name
\* the ids of the committed rows of items that carry the name
RowsNamed(db, name) == {i \in 1..Len(db.items) : db.items[i].name = name}
\* the property codes of the record, as import_item reads them
PropertiesOf(item) ==
    IF Falsy(Get(item, "property")) THEN <<>>
    ELSE IF item.d["property"].t = "str" THEN <<item.d["property"]>>
    ELSE item.d["property"].items
\* the committed rows link the item to a property with the code
Linked(db, item_id, code) ==
    \E p \in 1..Len(db.item_properties) :
        db.item_properties[p] = code.s /\ <<item_id, p>> \in db.item_item_properties

\* C24: the import of one item is atomic: when import_item ends by recording a
\* failure, no row of the item is committed in items or item_item_properties;
\* and a row of the item is committed only together with all its property rows
\* and a recorded success.
ItemAtomic ==
    [][Calls("import_item") =>
         LET item == called'.arg
             rows == RowsNamed(database', Get(item, "name"))
         IN /\ stats'.failed = stats.failed + 1 =>
                  /\ rows = {}
                  /\ database'.item_item_properties = database.item_item_properties
            /\ rows # {} =>
                  /\ stats'.succeeded = stats.succeeded + 1
                  /\ \A i \in rows, k \in 1..Len(PropertiesOf(item)) :
                        /\ clean_type_code(PropertiesOf(item)[k]).t = "str"
                        /\ Linked(database', i, clean_type_code(PropertiesOf(item)[k]))]_vars

\* the counters of the ImportStats add up
Counted(st) == st.processed = st.succeeded + st.failed + st.skipped

\* C26: every input record of an import routine is counted exactly once: after
\* a routine processed n records, its ImportStats has processed = succeeded +
\* failed + skipped = n (one more record after each import_item, the length of
\* the list after import_item_conditions ran on fresh statistics).
EveryRecordCounted ==
    [][/\ Calls("import_item") => Counted(stats') /\ stats'.processed = stats.processed + 1
       /\ Calls("import_item_conditions") =>
             Counted(stats') /\ stats'.processed = Len(called'.arg.items)]_vars

\* the id of the row of the table whose key is the looked-up key (both taken
\* in lower case, as the lookups do), null when the table has no such row
RowOf(table, key) ==
    LET rows == pending[table]
        found == {i \in 1..Len(rows) : LowerText(rows[i]) = LowerText(key.s)}
    IN IF found = {} THEN Null ELSE IntV(Least(found))

\* C25: the lookup cache stays coherent with the store: after any sequence of
\* lookup_* and lookup_or_create_* calls of one process, lookup_creature_type
\* and lookup_creature_size return the id of the row with the key whenever the
\* table has such a row, and None only when it has none.
CacheCoherent ==
    /\ called.fn = "lookup_creature_type" => called.returned = RowOf("creature_types", called.arg)
    /\ called.fn = "lookup_creature_size" => called.returned = RowOf("creature_sizes", called.arg)

\* C27: extract_all runs its seven scripts strictly in the order extract_names,
\* normalize_bonuses, normalize_type_codes, extract_conditions, extract_damage,
\* extract_cross_refs, validate_extraction; a script starts only after every
\* earlier script exited with 0; the first exit status other than 0 stops the
\* sequence with return code 1; and return code 0 is reached only after all
\* seven succeeded.
ExtractAllInOrder ==
    /\ Len(started) <= 7
    /\ \A i \in 1..Len(started) :
          /\ started[i].script =
                <<"extract_names.py", "normalize_bonuses.py", "normalize_type_codes.py",
                  "extract_conditions.py", "extract_damage.py", "extract_cross_refs.py",
                  "validate_extraction.py">>[i]
          /\ i < Len(started) => started[i].status = 0
    /\ started # <<>> /\ started[Len(started)].status # 0 =>
          returnCode = IntV(1) /\ pcExtractAll = 0
    /\ returnCode = IntV(1) => started # <<>> /\ started[Len(started)].status # 0
    /\ returnCode = IntV(0) =>
          Len(started) = 7 /\ \A i \in 1..7 : started[i].status = 0
    /\ returnCode \in {NotRun, IntV(0), IntV(1)}

\* all seven scripts ran and succeeded, and extract_all returned 0
ExtractAllWitness ==
    returnCode = IntV(0) /\ Len(started) = 7 /\ started[7].script = "validate_extraction.py"

\* the places of a text where a tag of the given opener starts: the opener,
\* one character or more, none of them a closing brace, and the closing brace
TagStarts(text, opener) ==
    {p \in 0..(Len(text) - 1) :
        /\ StartsAt(text, p, opener)
        /\ \E q \in (p + Len(opener) + 1)..(Len(text) - 1) :
              /\ text[q + 1] = "}"
              /\ \A r \in (p + Len(opener))..(q - 1) : text[r + 1] # "}"}

\* what a tag that starts at p holds between its opener and its closing brace
TagBody(text, p, opener) ==
    LET q == Least({r \in (p + Len(opener))..(Len(text) - 1) : text[r + 1] = "}"})
    IN Slice(text, p + Len(opener), q)

\* the numbers of a set, the least first
RECURSIVE InTextOrder(_)
InTextOrder(places) ==
    IF places = {} THEN <<>>
    ELSE <<Least(places)>> \o InTextOrder(places \ {Least(places)})

\* the damage of the tag that starts at p, as a damage fact holds it: the dice
\* and the flat bonus read from the tag's expression, the type named in the
\* window that starts with the tag
DamageOfTag(text, p) ==
    [dice |-> parse_damage_expression(TagBody(text, p, <<"{", "@", "d", "a", "m", "a", "g", "e",
                                                         " ">>)).dice,
     bonus |-> parse_damage_expression(TagBody(text, p, <<"{", "@", "d", "a", "m", "a", "g", "e",
                                                          " ">>)).bonus,
     type |-> extract_damage_type_from_text(text, p)]

\* C28: for an attack text with an attack-type tag and n >= 1 damage tags,
\* extract_monster_attack emits one record whose primary damage (dice, flat
\* bonus, type) is that of the first damage tag of the text and whose
\* additional_damage holds the damage of the other n-1 tags in text order; a
\* text without an attack-type tag yields no record; an attack text without a
\* damage tag yields a record with null damage and an empty additional_damage.
PrimaryAndSecondaryDamage ==
    applied = "extract_monster_attack" /\ subject.kind = "attack" =>
        LET text == subject.v.s
            attack == TagStarts(text, <<"{", "@", "a", "t", "k", " ">>)
            damage == InTextOrder(TagStarts(text, <<"{", "@", "d", "a", "m", "a", "g", "e", " ">>))
        IN IF attack = {} THEN produced = Null
           ELSE /\ produced.t = "dict"
                /\ Has(produced, "additional_damage")
                /\ produced.d["additional_damage"].t = "list"
                /\ IF damage = <<>>
                   THEN /\ Get(produced, "damage_dice") = Null
                        /\ Get(produced, "damage_bonus") = Null
                        /\ Get(produced, "damage_type") = Null
                        /\ {"damage_dice", "damage_bonus", "damage_type"} \subseteq DOMAIN produced.d
                        /\ produced.d["additional_damage"].items = <<>>
                   ELSE /\ produced.d["damage_dice"] = DamageOfTag(text, damage[1]).dice
                        /\ produced.d["damage_bonus"] = DamageOfTag(text, damage[1]).bonus
                        /\ produced.d["damage_type"] = DamageOfTag(text, damage[1]).type
                        /\ Len(produced.d["additional_damage"].items) = Len(damage) - 1
                        /\ \A i \in 1..(Len(damage) - 1) :
                              produced.d["additional_damage"].items[i] =
                                 Dict("damage_dice" :> DamageOfTag(text, damage[i + 1]).dice
                                      @@ "damage_bonus" :> DamageOfTag(text, damage[i + 1]).bonus
                                      @@ "damage_type" :> DamageOfTag(text, damage[i + 1]).type)

\* an attack with three damage tags: 1d8 + 3 slashing is the primary damage,
\* 1d6 fire and 2d4 + 2 cold follow in additional_damage
PrimaryAndSecondaryWitness ==
    /\ applied = "extract_monster_attack"
    /\ subject.kind = "attack"
    /\ Cardinality(TagStarts(subject.v.s, <<"{", "@", "d", "a", "m", "a", "g", "e", " ">>)) = 3
    /\ produced.t = "dict"
    /\ produced.d["damage_dice"] = Str(<<"1", "d", "8">>)
    /\ produced.d["damage_bonus"] = IntV(3)
    /\ produced.d["damage_type"] = Str(<<"s", "l", "a", "s", "h", "i", "n", "g">>)
    /\ produced.d["additional_damage"] =
          List(<<Dict("damage_dice" :> Str(<<"1", "d", "6">>) @@ "damage_bonus" :> IntV(0)
                      @@ "damage_type" :> Str(<<"f", "i", "r", "e">>)),
                 Dict("damage_dice" :> Str(<<"2", "d", "4">>) @@ "damage_bonus" :> IntV(2)
                      @@ "damage_type" :> Str(<<"c", "o", "l", "d">>))>>)

====
